---- MODULE Spec2Model ----
(***************************************************************************)
(* Lockdrop contract of mars-periphery (contracts/lockdrop/src/contract.rs) *)
(* as a state machine.  One action is one top-level transaction: the        *)
(* handler of the ExecuteMsg, followed by the messages it emitted, run in   *)
(* emission order (self-addressed callbacks included), all committed        *)
(* together or not at all.                                                  *)
(***************************************************************************)
EXTENDS Integers, Sequences, FiniteSets, TLC

VARIABLES config, state, user_info, lockup_info, now, last, hist

vars == <<config, state, user_info, lockup_info, now, last, hist>>

\* ------------------------------------------------------------------ bounds
MaxTime == 5
MaxLocked == 2
MaxAccrued == 1
MaxDelegated == 1
\* total_deposits_weight drifts upwards over deposit/withdraw cycles (each
\* operation rounds its own weight down); deposits stop at this weight
MaxWeight == 4

\* the longest deposit or withdrawal window of the configurations compared
MaxWindow == 3

\* --------------------------------------------------------------- addresses
Users == {"u1", "u2"}
OwnerAddr == "owner"
AuctionAddr == "auction"
ContractAddr == "contract"
Senders == Users \cup {OwnerAddr, AuctionAddr}
\* the accounts that lock UST
Depositors == {"u1"}

\* ----------------------------------------------- cosmwasm_std fixed point
\* Decimal keeps DECIMAL_FRACTIONAL atomics per unit (10^18 in cosmwasm_std;
\* scaled to 10^3 here, which still represents the configured ratios exactly).
DECIMAL_FRACTIONAL == 1000

\* Decimal::from_ratio(n, d): atomics, rounded down
from_ratio(n, d) == (n * DECIMAL_FRACTIONAL) \div d

\* Uint128 * Decimal (and Decimal * Uint128): amount * atomics / 10^18 at full
\* width, rounded down.  Written as whole units plus remainder, which is the
\* same number and keeps the intermediate product small.
mul_dec(amount, dec) ==
    (amount \div DECIMAL_FRACTIONAL) * dec
        + ((amount % DECIMAL_FRACTIONAL) * dec) \div DECIMAL_FRACTIONAL

\* ------------------------------------------------------------ instantiate
InstantiateMsg ==
    [ owner |-> OwnerAddr,
      auction_contract_address |-> AuctionAddr,
      init_timestamp |-> 1,
      deposit_window |-> 2,
      withdrawal_window |-> 1,
      min_duration |-> 1,
      max_duration |-> 2,
      seconds_per_week |-> 1,
      weekly_multiplier |-> 1,
      weekly_divider |-> 2,
      lockdrop_incentives |-> 10 ]

DefaultState ==
    [ final_ust_locked |-> 0,
      final_maust_locked |-> 0,
      total_ust_locked |-> 0,
      total_maust_locked |-> 0,
      total_deposits_weight |-> 0,
      total_mars_delegated |-> 0,
      are_claims_allowed |-> FALSE,
      xmars_rewards_index |-> 0 ]

DefaultUserInfo ==
    [ total_ust_locked |-> 0,
      total_maust_share |-> 0,
      lockup_positions |-> <<>>,
      total_mars_incentives |-> 0,
      delegated_mars_incentives |-> 0,
      lockdrop_claimed |-> FALSE,
      reward_index |-> 0,
      total_xmars_claimed |-> 0 ]

DefaultLockupInfo ==
    [ stored |-> FALSE,
      ust_locked |-> 0,
      duration |-> 0,
      unlock_timestamp |-> 0,
      withdrawal_flag |-> FALSE,
      lockdrop_reward |-> 0 ]

\* lockup_id = address + duration.to_string(): one id per (address, duration)
LockupId(user, duration) == <<user, duration>>

LockupIds ==
    { LockupId(u, d) : u \in Users,
                       d \in InstantiateMsg.min_duration .. InstantiateMsg.max_duration }

\* instantiate: the checks on the message, then the stored Config
instantiate_ok(msg, time) ==
    /\ ~(msg.init_timestamp < time)
    /\ ~(msg.deposit_window = 0
           \/ msg.withdrawal_window = 0
           \/ msg.deposit_window <= msg.withdrawal_window)
    /\ ~(msg.max_duration <= msg.min_duration)

instantiate_config(msg) ==
    [ owner |-> msg.owner,
      auction_contract_address |-> msg.auction_contract_address,
      init_timestamp |-> msg.init_timestamp,
      deposit_window |-> msg.deposit_window,
      withdrawal_window |-> msg.withdrawal_window,
      min_lock_duration |-> msg.min_duration,
      max_lock_duration |-> msg.max_duration,
      seconds_per_week |-> msg.seconds_per_week,
      weekly_multiplier |-> msg.weekly_multiplier,
      weekly_divider |-> msg.weekly_divider,
      lockdrop_incentives |-> msg.lockdrop_incentives ]

\* ------------------------------------------------------- ledger and results
\* The stored records (CONFIG, STATE, USER_INFO, LOCKUP_INFO) as one value.
Ledger == [ config |-> config, state |-> state,
            user_info |-> user_info, lockup_info |-> lockup_info ]

\* StdResult<Response>: Err, or Ok with the messages of the Response
Err(L) == [ ok |-> FALSE, L |-> L, msgs |-> <<>> ]
Ok(L, msgs) == [ ok |-> TRUE, L |-> L, msgs |-> msgs ]

\* A CosmosMsg.  kind names the instruction; the other fields are its payload.
Msg(kind, user, amount, duration, forceful) ==
    [ kind |-> kind, user |-> user, amount |-> amount,
      duration |-> duration, forceful |-> forceful ]

\* LOCKUP_INFO.may_load(id).unwrap_or_default()
load_lockup(L, user, duration) ==
    IF LockupId(user, duration) \in DOMAIN L.lockup_info
    THEN L.lockup_info[LockupId(user, duration)]
    ELSE DefaultLockupInfo

\* ---------------------------------------------------------------- helpers
is_deposit_open(current_timestamp, cfg) ==
    LET deposits_opened_till == cfg.init_timestamp + cfg.deposit_window
    IN  (current_timestamp >= cfg.init_timestamp)
          /\ (deposits_opened_till >= current_timestamp)

\* is_withdraw_open with the withdrawal window counted from the end of the
\* deposit window
is_withdraw_open_after_deposits(current_timestamp, cfg) ==
    LET withdrawals_opened_till == cfg.init_timestamp + cfg.deposit_window
                                     + cfg.withdrawal_window
    IN  (current_timestamp >= cfg.init_timestamp)
          /\ (withdrawals_opened_till >= current_timestamp)

is_withdraw_open(current_timestamp, cfg) ==
    LET withdrawals_opened_till == cfg.init_timestamp + cfg.withdrawal_window
    IN  (current_timestamp >= cfg.init_timestamp)
          /\ (withdrawals_opened_till >= current_timestamp)

\* calculate_unlock_timestamp counted from init_timestamp
calculate_unlock_timestamp_without_window(cfg, duration) ==
    cfg.init_timestamp + (duration * cfg.seconds_per_week)

calculate_unlock_timestamp(cfg, duration) ==
    cfg.init_timestamp + cfg.deposit_window + (duration * cfg.seconds_per_week)

\* index of the first element equal to id, 0 when there is none
RECURSIVE position(_, _, _)
position(seq, id, i) ==
    IF i > Len(seq) THEN 0
    ELSE IF seq[i] = id THEN i
    ELSE position(seq, id, i + 1)

remove_at(seq, i) ==
    [ j \in 1 .. (Len(seq) - 1) |-> IF j < i THEN seq[j] ELSE seq[j + 1] ]

\* remove_lockup_pos_from_user_info: position(..).unwrap() panics when the id
\* is not in the list; ok tells whether it was found.
remove_lockup_pos_from_user_info(ui, id) ==
    LET index == position(ui.lockup_positions, id, 1)
    IN  IF index = 0
        THEN [ ok |-> FALSE, ui |-> ui ]
        ELSE [ ok |-> TRUE,
               ui |-> [ui EXCEPT !.lockup_positions = remove_at(@, index)] ]

\* allowed_withdrawal_percent: a Decimal
allowed_withdrawal_percent(current_timestamp, cfg) ==
    LET withdrawal_cutoff_init_point == cfg.init_timestamp + cfg.deposit_window
        withdrawal_cutoff_second_point ==
            withdrawal_cutoff_init_point + (cfg.withdrawal_window \div 2)
        withdrawal_cutoff_final == withdrawal_cutoff_init_point + cfg.withdrawal_window
    IN  IF current_timestamp < withdrawal_cutoff_init_point
        THEN from_ratio(100, 100)
        ELSE IF current_timestamp <= withdrawal_cutoff_second_point
        THEN from_ratio(50, 100)
        ELSE IF current_timestamp < withdrawal_cutoff_final
        THEN from_ratio(50 * (withdrawal_cutoff_final - current_timestamp),
                        100 * (withdrawal_cutoff_final - withdrawal_cutoff_second_point))
        ELSE from_ratio(0, 100)

\* calculate_weight that ignores the duration
calculate_weight_unweighted(amount, duration, cfg) == amount

\* calculate_weight: lock_weight * amount, rounded down
calculate_weight(amount, duration, cfg) ==
    LET lock_weight == DECIMAL_FRACTIONAL
                         + from_ratio((duration - 1) * cfg.weekly_multiplier,
                                      cfg.weekly_divider)
    IN  mul_dec(amount, lock_weight)

calculate_mars_incentives_for_lockup(deposited_ust, duration, cfg, total_deposits_weight) ==
    IF total_deposits_weight = 0
    THEN 0
    ELSE LET amount_weight == calculate_weight(deposited_ust, duration, cfg)
         IN  mul_dec(cfg.lockdrop_incentives,
                     from_ratio(amount_weight, total_deposits_weight))

calculate_ma_ust_share(ust_locked_share, final_ust_locked, final_maust_locked) ==
    IF final_ust_locked = 0
    THEN 0
    ELSE mul_dec(final_maust_locked, from_ratio(ust_locked_share, final_ust_locked))

\* ------------------------------------------------------------- DepositUst
UUSD_DENOM == "uusd"

Coin(denom, amount) == [ denom |-> denom, amount |-> amount ]

\* try_deposit_ust after its checks: lockup_info and user_info are the loaded
\* (or default) records
deposit_update(L, sender, duration, amount, lockup_info_, user_info_) ==
    Ok([L EXCEPT
           !.state.total_ust_locked = @ + amount,
           !.state.total_deposits_weight = @ + calculate_weight(amount, duration, L.config),
           !.lockup_info[LockupId(sender, duration)] =
               IF lockup_info_.duration = 0
               THEN [lockup_info_ EXCEPT
                        !.stored = TRUE,
                        !.ust_locked = @ + amount,
                        !.duration = duration,
                        !.unlock_timestamp = calculate_unlock_timestamp(L.config, duration)]
               ELSE [lockup_info_ EXCEPT !.stored = TRUE, !.ust_locked = @ + amount],
           !.user_info[sender] =
               IF lockup_info_.duration = 0
               THEN [user_info_ EXCEPT
                        !.total_ust_locked = @ + amount,
                        !.lockup_positions = Append(@, LockupId(sender, duration))]
               ELSE [user_info_ EXCEPT !.total_ust_locked = @ + amount]],
       <<>>)

\* try_deposit_ust without the check of the amount
try_deposit_ust_accepting_zero(L, time, sender, funds, duration) ==
    IF ~is_deposit_open(time, L.config) THEN Err(L)
    ELSE IF Len(funds) > 1 THEN Err(L)
    ELSE IF Len(funds) = 0 THEN Err(L)
    ELSE IF funds[1].denom # UUSD_DENOM THEN Err(L)
    ELSE IF duration > L.config.max_lock_duration \/ duration < L.config.min_lock_duration
    THEN Err(L)
    ELSE deposit_update(L, sender, duration, funds[1].amount,
                        load_lockup(L, sender, duration), L.user_info[sender])

\* info.funds.first().unwrap() panics on an empty list, which aborts the call
try_deposit_ust(L, time, sender, funds, duration) ==
    IF ~is_deposit_open(time, L.config) THEN Err(L)
    ELSE IF Len(funds) > 1 THEN Err(L)
    ELSE IF Len(funds) = 0 THEN Err(L)
    ELSE IF funds[1].denom # UUSD_DENOM THEN Err(L)
    ELSE IF funds[1].amount = 0 THEN Err(L)
    ELSE IF duration > L.config.max_lock_duration \/ duration < L.config.min_lock_duration
    THEN Err(L)
    ELSE deposit_update(L, sender, duration, funds[1].amount,
                        load_lockup(L, sender, duration), L.user_info[sender])

\* ------------------------------------------------------------ WithdrawUst
\* The writes of try_withdraw_ust.  removed is the user_info after the
\* decrement and, when the position is emptied, the removal of its id.  The
\* checked Uint128 subtractions and the unwrap() panic, which aborts the call.
withdraw_update(L, sender, duration, withdraw_amount, new_lockup, removed, weight) ==
    IF ~removed.ok THEN Err(L)
    ELSE IF withdraw_amount > L.state.total_ust_locked THEN Err(L)
    ELSE IF weight > L.state.total_deposits_weight THEN Err(L)
    ELSE Ok([L EXCEPT !.state.total_ust_locked = @ - withdraw_amount,
                      !.state.total_deposits_weight = @ - weight,
                      !.lockup_info[LockupId(sender, duration)] = new_lockup,
                      !.user_info[sender] = removed.ui],
            << Msg("bank_send", sender, withdraw_amount, 0, FALSE) >>)

\* try_withdraw_ust without the check of the withdrawal window
withdraw_checked_at_any_time(L, time, sender, duration, withdraw_amount, lockup_info_, user_info_) ==
    IF lockup_info_.ust_locked = 0 THEN Err(L)
    ELSE IF withdraw_amount >
              mul_dec(lockup_info_.ust_locked, allowed_withdrawal_percent(time, L.config))
    THEN Err(L)
    ELSE IF withdraw_amount > lockup_info_.ust_locked THEN Err(L)
    ELSE IF withdraw_amount > user_info_.total_ust_locked THEN Err(L)
    ELSE withdraw_update(
             L, sender, duration, withdraw_amount,
             [lockup_info_ EXCEPT
                 !.stored = TRUE,
                 !.withdrawal_flag =
                     IF time >= L.config.init_timestamp + L.config.deposit_window
                     THEN TRUE ELSE @,
                 !.ust_locked = @ - withdraw_amount],
             IF lockup_info_.ust_locked = withdraw_amount
             THEN remove_lockup_pos_from_user_info(
                      [user_info_ EXCEPT !.total_ust_locked = @ - withdraw_amount],
                      LockupId(sender, duration))
             ELSE [ ok |-> TRUE,
                    ui |-> [user_info_ EXCEPT !.total_ust_locked = @ - withdraw_amount] ],
             calculate_weight(withdraw_amount, duration, L.config))

\* try_withdraw_ust: the checks, on the loaded (or default) records
withdraw_checked(L, time, sender, duration, withdraw_amount, lockup_info_, user_info_) ==
    IF ~is_withdraw_open(time, L.config) THEN Err(L)
    ELSE IF lockup_info_.ust_locked = 0 THEN Err(L)
    ELSE IF withdraw_amount >
              mul_dec(lockup_info_.ust_locked, allowed_withdrawal_percent(time, L.config))
    THEN Err(L)
    ELSE IF withdraw_amount > lockup_info_.ust_locked THEN Err(L)
    ELSE IF withdraw_amount > user_info_.total_ust_locked THEN Err(L)
    ELSE withdraw_update(
             L, sender, duration, withdraw_amount,
             [lockup_info_ EXCEPT
                 !.stored = TRUE,
                 !.withdrawal_flag =
                     IF time >= L.config.init_timestamp + L.config.deposit_window
                     THEN TRUE ELSE @,
                 !.ust_locked = @ - withdraw_amount],
             IF lockup_info_.ust_locked = withdraw_amount
             THEN remove_lockup_pos_from_user_info(
                      [user_info_ EXCEPT !.total_ust_locked = @ - withdraw_amount],
                      LockupId(sender, duration))
             ELSE [ ok |-> TRUE,
                    ui |-> [user_info_ EXCEPT !.total_ust_locked = @ - withdraw_amount] ],
             calculate_weight(withdraw_amount, duration, L.config))

try_withdraw_ust(L, time, sender, duration, withdraw_amount) ==
    withdraw_checked(L, time, sender, duration, withdraw_amount,
                     load_lockup(L, sender, duration), L.user_info[sender])

\* ----------------------------------------------------------- UpdateConfig
\* An Option<String> that is None, for option_string_to_addr
NoneAddr == "none"

option_string_to_addr(opt, default) == IF opt = NoneAddr THEN default ELSE opt

\* update_config without the check of the sender
update_config_by_anyone(L, sender, new_config) ==
    Ok([L EXCEPT
           !.config.auction_contract_address =
               option_string_to_addr(new_config.auction_contract_address, @),
           !.config.owner = option_string_to_addr(new_config.owner, @)],
       <<>>)

update_config(L, sender, new_config) ==
    IF sender # L.config.owner
    THEN Err(L)
    ELSE Ok([L EXCEPT
                !.config.auction_contract_address =
                    option_string_to_addr(new_config.auction_contract_address, @),
                !.config.owner = option_string_to_addr(new_config.owner, @)],
            <<>>)

\* ----------------------------------------------------------- EnableClaims
\* handle_enable_claims without the check of the sender
handle_enable_claims_by_anyone(L, sender) ==
    IF L.state.are_claims_allowed THEN Err(L)
    ELSE Ok([L EXCEPT !.state.are_claims_allowed = TRUE], <<>>)

handle_enable_claims(L, sender) ==
    IF sender # L.config.auction_contract_address THEN Err(L)
    ELSE IF L.state.are_claims_allowed THEN Err(L)
    ELSE Ok([L EXCEPT !.state.are_claims_allowed = TRUE], <<>>)

\* ---------------------------------------------------- DepositUstInRedBank
\* W is what the queries of the transaction see: the contract's maUST and
\* xMARS balances, and the rewards the incentives contract reports pending.
\* try_deposit_in_red_bank without the check of the deposit window
try_deposit_in_red_bank_at_any_time(L, W, time, sender) ==
    IF sender # L.config.owner THEN Err(L)
    ELSE IF L.state.final_maust_locked > 0 THEN Err(L)
    ELSE Ok(L, << Msg("redbank_deposit", ContractAddr, L.state.total_ust_locked, 0, FALSE),
                  Msg("UpdateStateOnRedBankDeposit", ContractAddr, W.maust_balance,
                      0, FALSE) >>)

try_deposit_in_red_bank(L, W, time, sender) ==
    IF sender # L.config.owner THEN Err(L)
    ELSE IF time < L.config.init_timestamp \/ is_deposit_open(time, L.config) THEN Err(L)
    ELSE IF L.state.final_maust_locked > 0 THEN Err(L)
    ELSE Ok(L, << Msg("redbank_deposit", ContractAddr, L.state.total_ust_locked, 0, FALSE),
                  Msg("UpdateStateOnRedBankDeposit", ContractAddr, W.maust_balance,
                      0, FALSE) >>)

\* update_state_on_red_bank_deposit that takes the whole balance as minted
update_state_on_red_bank_deposit_whole_balance(L, W, prev_ma_ust_balance) ==
    IF prev_ma_ust_balance > W.maust_balance THEN Err(L)
    ELSE Ok([L EXCEPT !.state.final_ust_locked = L.state.total_ust_locked,
                      !.state.final_maust_locked = W.maust_balance,
                      !.state.total_ust_locked = 0,
                      !.state.total_maust_locked = W.maust_balance],
            <<>>)

update_state_on_red_bank_deposit(L, W, prev_ma_ust_balance) ==
    IF prev_ma_ust_balance > W.maust_balance THEN Err(L)
    ELSE Ok([L EXCEPT !.state.final_ust_locked = L.state.total_ust_locked,
                      !.state.final_maust_locked = W.maust_balance - prev_ma_ust_balance,
                      !.state.total_ust_locked = 0,
                      !.state.total_maust_locked = W.maust_balance - prev_ma_ust_balance],
            <<>>)

\* ------------------------------------------------- incentive allocation
\* update_mars_rewards_allocated_to_lockup_positions: caches lockdrop_reward on
\* every position of the list, in list order; load(..).unwrap() panics on an id
\* that is not stored.
position_rewards(L, lockup_id) ==
    calculate_mars_incentives_for_lockup(
        L.lockup_info[lockup_id].ust_locked, L.lockup_info[lockup_id].duration,
        L.config, L.state.total_deposits_weight)

RECURSIVE update_mars_rewards_from(_, _, _, _)
update_mars_rewards_from(L, positions, i, total_mars_rewards) ==
    IF i > Len(positions)
    THEN [ ok |-> TRUE, L |-> L, total |-> total_mars_rewards ]
    ELSE IF ~(positions[i] \in DOMAIN L.lockup_info /\ L.lockup_info[positions[i]].stored)
    THEN [ ok |-> FALSE, L |-> L, total |-> 0 ]
    ELSE update_mars_rewards_from(
             [L EXCEPT !.lockup_info[positions[i]].lockdrop_reward =
                           position_rewards(L, positions[i])],
             positions, i + 1, total_mars_rewards + position_rewards(L, positions[i]))

update_mars_rewards_allocated_to_lockup_positions(L, ui) ==
    update_mars_rewards_from(L, ui.lockup_positions, 1, 0)

\* "If user's total maUST share == 0 :: We update it"
with_maust_share(L, ui) ==
    IF ui.total_maust_share = 0
    THEN [ui EXCEPT !.total_maust_share =
             calculate_ma_ust_share(ui.total_ust_locked, L.state.final_ust_locked,
                                    L.state.final_maust_locked)]
    ELSE ui

\* with_mars_incentives that keeps the total and drops the rewards written on
\* the positions
with_mars_incentives_not_caching_positions(L, ui, alloc) ==
    IF ui.total_mars_incentives = 0
    THEN [ ok |-> alloc.ok, L |-> L,
           ui |-> [ui EXCEPT !.total_mars_incentives = alloc.total] ]
    ELSE [ ok |-> TRUE, L |-> L, ui |-> ui ]

\* "If user's total MARS rewards == 0 :: We update all of the user's lockup
\* positions": the ledger with the rewards cached on the positions, and the
\* handler's own user_info
with_mars_incentives(L, ui, alloc) ==
    IF ui.total_mars_incentives = 0
    THEN [ ok |-> alloc.ok, L |-> alloc.L,
           ui |-> [ui EXCEPT !.total_mars_incentives = alloc.total] ]
    ELSE [ ok |-> TRUE, L |-> L, ui |-> ui ]

\* the handler's view after both lazy updates
lazy_updates(L, ui) ==
    with_mars_incentives(L, ui, update_mars_rewards_allocated_to_lockup_positions(L, ui))

\* --------------------------------------------------- DepositMarsToAuction
\* delegate_update without the check of the amount against the unclaimed MARS
delegate_update_unchecked(L, sender, amount, v) ==
    IF ~v.ok THEN Err(L)
    ELSE IF v.ui.delegated_mars_incentives > v.ui.total_mars_incentives THEN Err(L)
    ELSE Ok([v.L EXCEPT !.state.total_mars_delegated = @ + amount,
                        !.user_info[sender] =
                            [v.ui EXCEPT !.delegated_mars_incentives = @ + amount]],
            << Msg("cw20_send_mars_to_auction", sender, amount, 0, FALSE) >>)

delegate_update(L, sender, amount, v) ==
    IF ~v.ok THEN Err(L)
    ELSE IF v.ui.delegated_mars_incentives > v.ui.total_mars_incentives THEN Err(L)
    ELSE IF amount > (v.ui.total_mars_incentives - v.ui.delegated_mars_incentives)
    THEN Err(L)
    ELSE Ok([v.L EXCEPT !.state.total_mars_delegated = @ + amount,
                        !.user_info[sender] =
                            [v.ui EXCEPT !.delegated_mars_incentives = @ + amount]],
            << Msg("cw20_send_mars_to_auction", sender, amount, 0, FALSE) >>)

\* handle_deposit_mars_to_auction without the check of are_claims_allowed
handle_deposit_mars_to_auction_after_claims(L, time, sender, amount) ==
    IF time < (L.config.init_timestamp + L.config.deposit_window
                 + L.config.withdrawal_window)
    THEN Err(L)
    ELSE IF Len(L.user_info[sender].lockup_positions) = 0 THEN Err(L)
    ELSE delegate_update(L, sender, amount,
                         lazy_updates(L, with_maust_share(L, L.user_info[sender])))

handle_deposit_mars_to_auction(L, time, sender, amount) ==
    IF time < (L.config.init_timestamp + L.config.deposit_window
                 + L.config.withdrawal_window)
    THEN Err(L)
    ELSE IF L.state.are_claims_allowed THEN Err(L)
    ELSE IF Len(L.user_info[sender].lockup_positions) = 0 THEN Err(L)
    ELSE delegate_update(L, sender, amount,
                         lazy_updates(L, with_maust_share(L, L.user_info[sender])))

\* -------------------------------------------------- ClaimRewardsAndUnlock
\* The handler computes total_maust_share and total_mars_incentives on its own
\* copy of user_info and never saves that copy; what reaches storage is the
\* lockdrop_reward written on the positions through deps.branch().
\* claim_response that saves the handler's copy of user_info
claim_response_saving_user_info(L, W, sender, lockup_to_unlock_duration, forceful_unlock, v) ==
    IF ~v.ok THEN Err(L)
    ELSE Ok([v.L EXCEPT !.user_info[sender] = v.ui],
            (IF W.pending_xmars # 0
             THEN << Msg("claim_xmars", ContractAddr, 0, 0, FALSE) >>
             ELSE <<>>)
              \o << Msg("UpdateStateOnClaim", sender, W.xmars_balance, 0, FALSE) >>
              \o (IF lockup_to_unlock_duration > 0
                  THEN << Msg("DissolvePosition", sender, 0,
                              lockup_to_unlock_duration, forceful_unlock) >>
                  ELSE <<>>))

\* claim_response that schedules the dissolve before UpdateStateOnClaim
claim_response_dissolving_first(L, W, sender, lockup_to_unlock_duration, forceful_unlock, v) ==
    IF ~v.ok THEN Err(L)
    ELSE Ok(v.L,
            (IF W.pending_xmars # 0
             THEN << Msg("claim_xmars", ContractAddr, 0, 0, FALSE) >>
             ELSE <<>>)
              \o (IF lockup_to_unlock_duration > 0
                  THEN << Msg("DissolvePosition", sender, 0,
                              lockup_to_unlock_duration, forceful_unlock) >>
                  ELSE <<>>)
              \o << Msg("UpdateStateOnClaim", sender, W.xmars_balance, 0, FALSE) >>)

claim_response(L, W, sender, lockup_to_unlock_duration, forceful_unlock, v) ==
    IF ~v.ok THEN Err(L)
    ELSE Ok(v.L,
            (IF W.pending_xmars # 0
             THEN << Msg("claim_xmars", ContractAddr, 0, 0, FALSE) >>
             ELSE <<>>)
              \o << Msg("UpdateStateOnClaim", sender, W.xmars_balance, 0, FALSE) >>
              \o (IF lockup_to_unlock_duration > 0
                  THEN << Msg("DissolvePosition", sender, 0,
                              lockup_to_unlock_duration, forceful_unlock) >>
                  ELSE <<>>))

\* The error handle_claim_rewards_and_unlock_position returns from its checks:
\* the text of the generic_err and, for "seconds to Unlock", time_remaining
NoError == [ text |-> "", time_remaining |-> 0 ]

claim_error(L, time, sender, lockup_to_unlock_duration, forceful_unlock, lockup_info_) ==
    IF lockup_to_unlock_duration > 0 /\ lockup_info_.ust_locked = 0
    THEN [ text |-> "Invalid lockup", time_remaining |-> 0 ]
    ELSE IF lockup_to_unlock_duration > 0
              /\ ~forceful_unlock /\ lockup_info_.unlock_timestamp > time
    THEN [ text |-> "seconds to Unlock",
           time_remaining |-> lockup_info_.unlock_timestamp - time ]
    ELSE IF L.user_info[sender].total_ust_locked = 0
    THEN [ text |-> "No lockup to claim rewards for", time_remaining |-> 0 ]
    ELSE IF ~L.state.are_claims_allowed
    THEN [ text |-> "Claim not allowed", time_remaining |-> 0 ]
    ELSE NoError

\* claim_checked without the check of unlock_timestamp
claim_checked_unlocking_early(L, W, time, sender, lockup_to_unlock_duration, forceful_unlock, lockup_info_) ==
    IF lockup_to_unlock_duration > 0 /\ lockup_info_.ust_locked = 0 THEN Err(L)
    ELSE IF L.user_info[sender].total_ust_locked = 0 THEN Err(L)
    ELSE IF ~L.state.are_claims_allowed THEN Err(L)
    ELSE claim_response(L, W, sender, lockup_to_unlock_duration, forceful_unlock,
                        lazy_updates(L, with_maust_share(L, L.user_info[sender])))

claim_checked(L, W, time, sender, lockup_to_unlock_duration, forceful_unlock, lockup_info_) ==
    IF lockup_to_unlock_duration > 0 /\ lockup_info_.ust_locked = 0 THEN Err(L)
    ELSE IF lockup_to_unlock_duration > 0
              /\ ~forceful_unlock /\ lockup_info_.unlock_timestamp > time
    THEN Err(L)
    ELSE IF L.user_info[sender].total_ust_locked = 0 THEN Err(L)
    ELSE IF ~L.state.are_claims_allowed THEN Err(L)
    ELSE claim_response(L, W, sender, lockup_to_unlock_duration, forceful_unlock,
                        lazy_updates(L, with_maust_share(L, L.user_info[sender])))

handle_claim_rewards_and_unlock_position(L, W, time, sender, lockup_to_unlock_duration, forceful_unlock) ==
    claim_checked(L, W, time, sender, lockup_to_unlock_duration, forceful_unlock,
                  load_lockup(L, sender, lockup_to_unlock_duration))

\* update_xmars_rewards_index that sets the index to the increment
update_xmars_rewards_index_overwriting(st, xmars_accured) ==
    IF st.total_maust_locked = 0
    THEN st
    ELSE [st EXCEPT !.xmars_rewards_index =
                        from_ratio(xmars_accured, st.total_maust_locked)]

\* update_xmars_rewards_index that divides by the shares minted at the freeze
update_xmars_rewards_index_over_final_shares(st, xmars_accured) ==
    IF st.total_maust_locked = 0
    THEN st
    ELSE [st EXCEPT !.xmars_rewards_index =
                        @ + from_ratio(xmars_accured, st.final_maust_locked)]

\* update_xmars_rewards_index: the new State
update_xmars_rewards_index(st, xmars_accured) ==
    IF st.total_maust_locked = 0
    THEN st
    ELSE [st EXCEPT !.xmars_rewards_index =
                        @ + from_ratio(xmars_accured, st.total_maust_locked)]

\* compute_user_accrued_reward that leaves the user's reward_index behind
compute_user_accrued_reward_stale_index(st, ui) ==
    IF st.final_ust_locked = 0
    THEN [ ok |-> TRUE, pending |-> 0, ui |-> ui ]
    ELSE [ ok |-> mul_dec(ui.total_maust_share, st.xmars_rewards_index)
                    >= mul_dec(ui.total_maust_share, ui.reward_index),
           pending |-> mul_dec(ui.total_maust_share, st.xmars_rewards_index)
                         - mul_dec(ui.total_maust_share, ui.reward_index),
           ui |-> ui ]

\* compute_user_accrued_reward: the pending xMARS and the updated UserInfo;
\* ok is FALSE when the checked subtraction underflows.
compute_user_accrued_reward(st, ui) ==
    IF st.final_ust_locked = 0
    THEN [ ok |-> TRUE, pending |-> 0, ui |-> ui ]
    ELSE [ ok |-> mul_dec(ui.total_maust_share, st.xmars_rewards_index)
                    >= mul_dec(ui.total_maust_share, ui.reward_index),
           pending |-> mul_dec(ui.total_maust_share, st.xmars_rewards_index)
                         - mul_dec(ui.total_maust_share, ui.reward_index),
           ui |-> [ui EXCEPT !.reward_index = st.xmars_rewards_index] ]

\* update_state_on_claim once the index is updated (st) and the pending reward
\* computed (accrued)
\* claim_payout that leaves lockdrop_claimed as it found it
claim_payout_not_marking(L, user, st, accrued) ==
    IF ~accrued.ok THEN Err(L)
    ELSE IF ~accrued.ui.lockdrop_claimed
              /\ accrued.ui.delegated_mars_incentives > accrued.ui.total_mars_incentives
    THEN Err(L)
    ELSE Ok([L EXCEPT
                !.state = st,
                !.user_info[user] =
                    [accrued.ui EXCEPT !.total_xmars_claimed = @ + accrued.pending]],
            (IF accrued.pending > 0
             THEN << Msg("transfer_xmars", user, accrued.pending, 0, FALSE) >>
             ELSE <<>>)
              \o (IF ~accrued.ui.lockdrop_claimed
                  THEN << Msg("transfer_mars", user,
                              accrued.ui.total_mars_incentives
                                - accrued.ui.delegated_mars_incentives,
                              0, FALSE) >>
                  ELSE <<>>))

\* claim_payout that pays the whole of total_mars_incentives
claim_payout_ignoring_delegated(L, user, st, accrued) ==
    IF ~accrued.ok THEN Err(L)
    ELSE IF ~accrued.ui.lockdrop_claimed
              /\ accrued.ui.delegated_mars_incentives > accrued.ui.total_mars_incentives
    THEN Err(L)
    ELSE Ok([L EXCEPT
                !.state = st,
                !.user_info[user] =
                    [accrued.ui EXCEPT !.total_xmars_claimed = @ + accrued.pending,
                                       !.lockdrop_claimed = TRUE]],
            (IF accrued.pending > 0
             THEN << Msg("transfer_xmars", user, accrued.pending, 0, FALSE) >>
             ELSE <<>>)
              \o (IF ~accrued.ui.lockdrop_claimed
                  THEN << Msg("transfer_mars", user, accrued.ui.total_mars_incentives,
                              0, FALSE) >>
                  ELSE <<>>))

claim_payout(L, user, st, accrued) ==
    IF ~accrued.ok THEN Err(L)
    ELSE IF ~accrued.ui.lockdrop_claimed
              /\ accrued.ui.delegated_mars_incentives > accrued.ui.total_mars_incentives
    THEN Err(L)
    ELSE Ok([L EXCEPT
                !.state = st,
                !.user_info[user] =
                    [accrued.ui EXCEPT !.total_xmars_claimed = @ + accrued.pending,
                                       !.lockdrop_claimed = TRUE]],
            (IF accrued.pending > 0
             THEN << Msg("transfer_xmars", user, accrued.pending, 0, FALSE) >>
             ELSE <<>>)
              \o (IF ~accrued.ui.lockdrop_claimed
                  THEN << Msg("transfer_mars", user,
                              accrued.ui.total_mars_incentives
                                - accrued.ui.delegated_mars_incentives,
                              0, FALSE) >>
                  ELSE <<>>))

claim_accrue(L, user, st) ==
    claim_payout(L, user, st, compute_user_accrued_reward(st, L.user_info[user]))

update_state_on_claim(L, W, user, prev_xmars_balance) ==
    IF prev_xmars_balance > W.xmars_balance THEN Err(L)
    ELSE claim_accrue(L, user,
                      IF W.xmars_balance - prev_xmars_balance > 0
                      THEN update_xmars_rewards_index(
                               L.state, W.xmars_balance - prev_xmars_balance)
                      ELSE L.state)

\* ------------------------------------------------------- DissolvePosition
\* dissolve_update that releases the shares before it claws the reward back
dissolve_release_first(L, user, duration, forceful_unlock, lockup_info_, maust_to_withdraw, removed) ==
    IF maust_to_withdraw > L.state.total_maust_locked THEN Err(L)
    ELSE IF maust_to_withdraw > L.user_info[user].total_maust_share THEN Err(L)
    ELSE IF ~removed.ok THEN Err(L)
    ELSE Ok([L EXCEPT
                !.state.total_maust_locked = @ - maust_to_withdraw,
                !.user_info[user] =
                    [removed.ui EXCEPT !.total_maust_share = @ - maust_to_withdraw],
                !.lockup_info =
                    [ id \in DOMAIN @ |->
                        IF id = LockupId(user, duration) THEN DefaultLockupInfo ELSE @[id] ]],
            << Msg("transfer_maust", user, maust_to_withdraw, 0, FALSE) >>
              \o (IF forceful_unlock
                  THEN << Msg("transfer_from_mars", user, lockup_info_.lockdrop_reward,
                              0, FALSE) >>
                  ELSE <<>>))

\* dissolve_update that leaves the user's total_maust_share as it was
dissolve_update_keeping_user_share(L, user, duration, forceful_unlock, lockup_info_, maust_to_withdraw, removed) ==
    IF maust_to_withdraw > L.state.total_maust_locked THEN Err(L)
    ELSE IF maust_to_withdraw > L.user_info[user].total_maust_share THEN Err(L)
    ELSE IF ~removed.ok THEN Err(L)
    ELSE Ok([L EXCEPT
                !.state.total_maust_locked = @ - maust_to_withdraw,
                !.user_info[user] = removed.ui,
                !.lockup_info =
                    [ id \in DOMAIN @ |->
                        IF id = LockupId(user, duration) THEN DefaultLockupInfo ELSE @[id] ]],
            (IF forceful_unlock
             THEN << Msg("transfer_from_mars", user, lockup_info_.lockdrop_reward,
                         0, FALSE) >>
             ELSE <<>>)
              \o << Msg("transfer_maust", user, maust_to_withdraw, 0, FALSE) >>)

\* dissolve_update that leaves state.total_maust_locked as it was
dissolve_update_keeping_pool(L, user, duration, forceful_unlock, lockup_info_, maust_to_withdraw, removed) ==
    IF maust_to_withdraw > L.state.total_maust_locked THEN Err(L)
    ELSE IF maust_to_withdraw > L.user_info[user].total_maust_share THEN Err(L)
    ELSE IF ~removed.ok THEN Err(L)
    ELSE Ok([L EXCEPT
                !.user_info[user] =
                    [removed.ui EXCEPT !.total_maust_share = @ - maust_to_withdraw],
                !.lockup_info =
                    [ id \in DOMAIN @ |->
                        IF id = LockupId(user, duration) THEN DefaultLockupInfo ELSE @[id] ]],
            (IF forceful_unlock
             THEN << Msg("transfer_from_mars", user, lockup_info_.lockdrop_reward,
                         0, FALSE) >>
             ELSE <<>>)
              \o << Msg("transfer_maust", user, maust_to_withdraw, 0, FALSE) >>)

dissolve_update(L, user, duration, forceful_unlock, lockup_info_, maust_to_withdraw, removed) ==
    IF maust_to_withdraw > L.state.total_maust_locked THEN Err(L)
    ELSE IF maust_to_withdraw > L.user_info[user].total_maust_share THEN Err(L)
    ELSE IF ~removed.ok THEN Err(L)
    ELSE Ok([L EXCEPT
                !.state.total_maust_locked = @ - maust_to_withdraw,
                !.user_info[user] =
                    [removed.ui EXCEPT !.total_maust_share = @ - maust_to_withdraw],
                !.lockup_info =
                    [ id \in DOMAIN @ |->
                        IF id = LockupId(user, duration) THEN DefaultLockupInfo ELSE @[id] ]],
            (IF forceful_unlock
             THEN << Msg("transfer_from_mars", user, lockup_info_.lockdrop_reward,
                         0, FALSE) >>
             ELSE <<>>)
              \o << Msg("transfer_maust", user, maust_to_withdraw, 0, FALSE) >>)

dissolve_loaded(L, user, duration, forceful_unlock, lockup_info_) ==
    dissolve_update(L, user, duration, forceful_unlock, lockup_info_,
                    calculate_ma_ust_share(lockup_info_.ust_locked,
                                           L.state.final_ust_locked,
                                           L.state.final_maust_locked),
                    remove_lockup_pos_from_user_info(L.user_info[user],
                                                     LockupId(user, duration)))

try_dissolve_position(L, user, duration, forceful_unlock) ==
    dissolve_loaded(L, user, duration, forceful_unlock, load_lockup(L, user, duration))

\* --------------------------------------------------------------- Callback
CallbackKinds == {"UpdateStateOnRedBankDeposit", "UpdateStateOnClaim", "DissolvePosition"}

\* _handle_callback without the check of the sender
handle_callback_any_sender(L, W, sender, msg) ==
    IF msg.kind = "UpdateStateOnRedBankDeposit"
    THEN update_state_on_red_bank_deposit(L, W, msg.amount)
    ELSE IF msg.kind = "UpdateStateOnClaim"
    THEN update_state_on_claim(L, W, msg.user, msg.amount)
    ELSE try_dissolve_position(L, msg.user, msg.duration, msg.forceful)

_handle_callback(L, W, sender, msg) ==
    IF sender # ContractAddr THEN Err(L)
    ELSE IF msg.kind = "UpdateStateOnRedBankDeposit"
    THEN update_state_on_red_bank_deposit(L, W, msg.amount)
    ELSE IF msg.kind = "UpdateStateOnClaim"
    THEN update_state_on_claim(L, W, msg.user, msg.amount)
    ELSE try_dissolve_position(L, msg.user, msg.duration, msg.forceful)

\* ------------------------------------------------------------ entry point
\* ExecuteMsg, with the fields of all variants; info carries sender and funds.
ExecuteMsg(op, duration, amount, forceful_unlock, new_config, callback) ==
    [ op |-> op, duration |-> duration, amount |-> amount,
      forceful_unlock |-> forceful_unlock, new_config |-> new_config,
      callback |-> callback ]

NoConfig == [ owner |-> NoneAddr, auction_contract_address |-> NoneAddr ]
NoCallback == Msg("none", NoneAddr, 0, 0, FALSE)

MsgInfo(sender, funds) == [ sender |-> sender, funds |-> funds ]

execute(L, W, time, info, msg) ==
    IF msg.op = "UpdateConfig" THEN update_config(L, info.sender, msg.new_config)
    ELSE IF msg.op = "DepositUst"
    THEN try_deposit_ust(L, time, info.sender, info.funds, msg.duration)
    ELSE IF msg.op = "WithdrawUst"
    THEN try_withdraw_ust(L, time, info.sender, msg.duration, msg.amount)
    ELSE IF msg.op = "DepositMarsToAuction"
    THEN handle_deposit_mars_to_auction(L, time, info.sender, msg.amount)
    ELSE IF msg.op = "EnableClaims" THEN handle_enable_claims(L, info.sender)
    ELSE IF msg.op = "DepositUstInRedBank"
    THEN try_deposit_in_red_bank(L, W, time, info.sender)
    ELSE IF msg.op = "ClaimRewardsAndUnlock"
    THEN handle_claim_rewards_and_unlock_position(
             L, W, time, info.sender, msg.duration, msg.forceful_unlock)
    ELSE _handle_callback(L, W, info.sender, msg.callback)

\* ------------------------------------------------------- the transaction
\* X is what the other contracts do during the transaction: the maUST the
\* venue mints for the deposit, the xMARS the incentives contract pays on a
\* claim (it reported the same amount as pending), and whether the bank, token
\* and venue instructions succeed.  Balances are counted from the start of the
\* transaction.
External(minted, accrued, ext_ok) ==
    [ minted |-> minted, accrued |-> accrued, ext_ok |-> ext_ok ]

World(X) == [ maust_balance |-> 0, xmars_balance |-> 0, pending_xmars |-> X.accrued ]

\* The effect of an instruction to another contract on what later queries see
external_effect(W, X, m) ==
    IF m.kind = "redbank_deposit"
    THEN [W EXCEPT !.maust_balance = @ + X.minted]
    ELSE IF m.kind = "claim_xmars"
    THEN [W EXCEPT !.xmars_balance = @ + X.accrued, !.pending_xmars = 0]
    ELSE W

\* The tokens (maUST, xMARS and the cw20 MARS) reject a transfer or send of a
\* zero amount with InvalidZeroAmount; anything else succeeds or fails with the
\* balances and allowances of the other contracts, which is X.ext_ok.
ZeroRejected == {"transfer_maust", "transfer_xmars", "transfer_mars",
                 "cw20_send_mars_to_auction"}

\* external_ok for tokens that would carry out a transfer of zero
external_ok_accepting_zero(X, m) == X.ext_ok

external_ok(X, m) ==
    /\ X.ext_ok
    /\ ~(m.kind \in ZeroRejected /\ m.amount = 0)


\* The messages of a Response run in emission order, those emitted by a
\* callback before the remaining ones of its caller; an error anywhere fails
\* the transaction.  trace is the instructions executed, in order.
RECURSIVE run_msgs(_, _, _, _, _)
RECURSIVE run_callback(_, _, _, _, _, _)
run_msgs(L, W, X, queue, trace) ==
    IF Len(queue) = 0
    THEN [ ok |-> TRUE, L |-> L, trace |-> trace ]
    ELSE IF Head(queue).kind \in CallbackKinds
    THEN run_callback(L, W, X, queue, trace,
                      _handle_callback(L, W, ContractAddr, Head(queue)))
    ELSE IF external_ok(X, Head(queue))
    THEN run_msgs(L, external_effect(W, X, Head(queue)), X, Tail(queue),
                  Append(trace, Head(queue)))
    ELSE [ ok |-> FALSE, L |-> L, trace |-> trace ]

\* r is what the contract returned for the callback at the head of the queue
run_callback(L, W, X, queue, trace, r) ==
    IF r.ok
    THEN run_msgs(r.L, W, X, r.msgs \o Tail(queue), Append(trace, Head(queue)))
    ELSE [ ok |-> FALSE, L |-> L, trace |-> trace ]

\* A top-level transaction on ledger L: committed ledger when ok, L otherwise.
\* r is the Response of the entry point, done the outcome of its messages.
tx_outcome(L, done) ==
    IF done.ok
    THEN [ ok |-> TRUE, L |-> done.L, trace |-> done.trace ]
    ELSE [ ok |-> FALSE, L |-> L, trace |-> <<>> ]

tx_dispatch(L, X, r) ==
    IF r.ok
    THEN tx_outcome(L, run_msgs(r.L, World(X), X, r.msgs, <<>>))
    ELSE [ ok |-> FALSE, L |-> L, trace |-> <<>> ]

transaction(L, time, info, msg, X) ==
    tx_dispatch(L, X, execute(L, World(X), time, info, msg))

\* ---------------------------------------------------------------- actions
Durations == InstantiateMsg.min_duration .. InstantiateMsg.max_duration

NoExternal == External(0, 0, TRUE)

\* the amount the instructions of a kind in a trace carry to u
RECURSIVE transferred(_, _, _, _)
transferred(trace, kind, u, i) ==
    IF i > Len(trace) THEN 0
    ELSE (IF trace[i].kind = kind /\ trace[i].user = u THEN trace[i].amount ELSE 0)
           + transferred(trace, kind, u, i + 1)

\* last: the last committed transaction; repeat tells that it is a claim
\* (duration 0) with nothing accrued that directly follows a claim (duration 0)
\* of the same sender.  hist: how many freezes committed (0, 1, or 2 for two
\* and more), what the first of them made final_ust_locked, the xMARS accrued
\* so far, whether only deposits and withdrawals have committed (plain), and
\* per user how many transactions raised total_maust_share and how many paid
\* MARS out (0, 1, or 2 for two and more), and per user the maUST, xMARS and
\* MARS the contract has instructed to be transferred to them so far.
Commit(info, msg, X) ==
    \E t \in { transaction(Ledger, now, info, msg, X) } :
        /\ t.ok
        /\ config' = t.L.config
        /\ state' = t.L.state
        /\ user_info' = t.L.user_info
        /\ lockup_info' = t.L.lockup_info
        /\ last' = [ op |-> msg.op, sender |-> info.sender, duration |-> msg.duration,
                     amount |-> msg.amount, forceful_unlock |-> msg.forceful_unlock,
                     msgs |-> t.trace,
                     repeat |-> /\ msg.op = "ClaimRewardsAndUnlock"
                                /\ msg.duration = 0
                                /\ X.accrued = 0
                                /\ last.op = "ClaimRewardsAndUnlock"
                                /\ last.duration = 0
                                /\ last.sender = info.sender ]
        /\ hist' = [ freezes |-> IF msg.op = "DepositUstInRedBank"
                                 THEN (IF hist.freezes = 0 THEN 1 ELSE 2)
                                 ELSE hist.freezes,
                     first_final_ust |->
                         IF msg.op = "DepositUstInRedBank" /\ hist.freezes = 0
                         THEN t.L.state.final_ust_locked
                         ELSE hist.first_final_ust,
                     accrued |-> hist.accrued + X.accrued,
                     plain |-> hist.plain /\ msg.op \in {"DepositUst", "WithdrawUst"},
                     share_assignments |->
                         [ u \in Users |->
                             IF t.L.user_info[u].total_maust_share
                                  > user_info[u].total_maust_share
                             THEN (IF hist.share_assignments[u] = 0 THEN 1 ELSE 2)
                             ELSE hist.share_assignments[u] ],
                     mars_payouts |->
                         [ u \in Users |->
                             IF \E i \in 1 .. Len(t.trace) :
                                    /\ t.trace[i].kind = "transfer_mars"
                                    /\ t.trace[i].user = u
                             THEN (IF hist.mars_payouts[u] = 0 THEN 1 ELSE 2)
                             ELSE hist.mars_payouts[u] ],
                     maust_out |->
                         [ u \in Users |->
                             hist.maust_out[u] + transferred(t.trace, "transfer_maust", u, 1) ],
                     xmars_paid |->
                         [ u \in Users |->
                             hist.xmars_paid[u] + transferred(t.trace, "transfer_xmars", u, 1) ],
                     mars_paid |->
                         [ u \in Users |->
                             hist.mars_paid[u] + transferred(t.trace, "transfer_mars", u, 1) ] ]
        /\ UNCHANGED now

Init ==
    /\ now = 0
    /\ instantiate_ok(InstantiateMsg, now)
    /\ config = instantiate_config(InstantiateMsg)
    /\ state = DefaultState
    /\ user_info = [ u \in Users |-> DefaultUserInfo ]
    /\ lockup_info = [ id \in LockupIds |-> DefaultLockupInfo ]
    /\ last = [ op |-> "instantiate", sender |-> OwnerAddr, duration |-> 0, amount |-> 0,
                forceful_unlock |-> FALSE, msgs |-> <<>>, repeat |-> FALSE ]
    /\ hist = [ freezes |-> 0, first_final_ust |-> 0, accrued |-> 0, plain |-> TRUE,
                share_assignments |-> [ u \in Users |-> 0 ],
                mars_payouts |-> [ u \in Users |-> 0 ],
                maust_out |-> [ u \in Users |-> 0 ],
                xmars_paid |-> [ u \in Users |-> 0 ],
                mars_paid |-> [ u \in Users |-> 0 ] ]

Tick ==
    /\ now < MaxTime
    /\ now' = now + 1
    /\ UNCHANGED <<config, state, user_info, lockup_info, last, hist>>

UpdateConfig ==
    \E sender \in Senders, owner \in {"u2"}, auction \in {"u2"} :
        /\ Commit(MsgInfo(sender, <<>>),
                  ExecuteMsg("UpdateConfig", 0, 0, FALSE,
                             [ owner |-> owner, auction_contract_address |-> auction ],
                             NoCallback),
                  NoExternal)

DepositUst ==
    \E sender \in Depositors, amount \in 1 .. MaxLocked, duration \in Durations :
        /\ state.total_ust_locked + amount <= MaxLocked
        /\ state.total_deposits_weight + calculate_weight(amount, duration, config)
             <= MaxWeight
        /\ Commit(MsgInfo(sender, << Coin(UUSD_DENOM, amount) >>),
                  ExecuteMsg("DepositUst", duration, amount, FALSE, NoConfig, NoCallback),
                  NoExternal)

WithdrawUst ==
    \E sender \in Depositors, amount \in 1 .. MaxLocked, duration \in Durations :
        /\ Commit(MsgInfo(sender, <<>>),
                  ExecuteMsg("WithdrawUst", duration, amount, FALSE, NoConfig, NoCallback),
                  NoExternal)

EnableClaims ==
    \E sender \in Senders :
        /\ Commit(MsgInfo(sender, <<>>),
                  ExecuteMsg("EnableClaims", 0, 0, FALSE, NoConfig, NoCallback),
                  NoExternal)

DepositUstInRedBank ==
    \E sender \in Senders, minted \in {0, state.total_ust_locked} :
        /\ Commit(MsgInfo(sender, <<>>),
                  ExecuteMsg("DepositUstInRedBank", 0, 0, FALSE, NoConfig, NoCallback),
                  External(minted, 0, TRUE))

DepositMarsToAuction ==
    \E sender \in Depositors, amount \in 0 .. MaxDelegated :
        /\ state.total_mars_delegated + amount <= MaxDelegated
        /\ Commit(MsgInfo(sender, <<>>),
                  ExecuteMsg("DepositMarsToAuction", 0, amount, FALSE, NoConfig, NoCallback),
                  NoExternal)

ClaimRewardsAndUnlock ==
    \E sender \in Depositors, duration \in {0} \cup Durations, forceful \in BOOLEAN,
       accrued \in 0 .. MaxAccrued :
        /\ hist.accrued + accrued <= MaxAccrued
        /\ duration = 0 => ~forceful
        /\ Commit(MsgInfo(sender, <<>>),
                  ExecuteMsg("ClaimRewardsAndUnlock", duration, 0, forceful,
                             NoConfig, NoCallback),
                  External(0, accrued, TRUE))

Next ==
    \/ Tick
    \/ UpdateConfig
    \/ DepositUst
    \/ WithdrawUst
    \/ EnableClaims
    \/ DepositUstInRedBank
    \/ DepositMarsToAuction
    \/ ClaimRewardsAndUnlock

Spec == Init /\ [][Next]_vars

\* ------------------------------------------------------------- properties
FreezeMsg == ExecuteMsg("DepositUstInRedBank", 0, 0, FALSE, NoConfig, NoCallback)

RECURSIVE SumOver(_, _)
SumOver(f, S) ==
    IF S = {} THEN 0
    ELSE LET x == CHOOSE y \in S : TRUE
         IN  f[x] + SumOver(f, S \ {x})

StoredPositions == { id \in LockupIds : lockup_info[id].stored }

Kinds(trace) == { trace[i].kind : i \in 1 .. Len(trace) }

\* C1: once a freeze of a nonzero principal has committed, whatever number of
\* shares the venue minted in it, every later DepositUstInRedBank fails and
\* final_ust_locked keeps the value the first freeze gave it.
C1_FreezeAtMostOnce ==
    (hist.freezes >= 1 /\ hist.first_final_ust > 0) =>
        /\ state.final_ust_locked = hist.first_final_ust
        /\ \A sender \in Senders, minted \in 0 .. MaxLocked :
               ~transaction(Ledger, now, MsgInfo(sender, <<>>), FreezeMsg,
                            External(minted, 0, TRUE)).ok

\* The incentive the code computes for a stored position, and its weight
incentive_share == [ id \in LockupIds |->
    calculate_mars_incentives_for_lockup(lockup_info[id].ust_locked,
                                         lockup_info[id].duration,
                                         config, state.total_deposits_weight) ]

position_weight == [ id \in LockupIds |->
    calculate_weight(lockup_info[id].ust_locked, lockup_info[id].duration, config) ]

\* C2: after any sequence of deposits and withdrawals the incentive shares of
\* all positions sum to at most lockdrop_incentives, and none exceeds its exact
\* pro-rata share rounded down.
C2_IncentivesWithinPool ==
    hist.plain =>
        /\ SumOver(incentive_share, StoredPositions) <= config.lockdrop_incentives
        /\ \A id \in StoredPositions :
               state.total_deposits_weight > 0 =>
                   incentive_share[id] <=
                       (config.lockdrop_incentives * position_weight[id])
                           \div state.total_deposits_weight

\* C3: after any sequence of deposits and withdrawals total_deposits_weight is
\* the sum over the positions of calculate_weight(ust_locked, duration).
C3_WeightIsSumOfPositions ==
    hist.plain =>
        state.total_deposits_weight = SumOver(position_weight, StoredPositions)

ust_locked_of == [ id \in LockupIds |-> lockup_info[id].ust_locked ]

\* C4: before the freeze the ust_locked of the stored positions sum to
\* state.total_ust_locked, whatever operations led to the state.
C4_PrincipalIsSumOfPositions ==
    hist.freezes = 0 =>
        SumOver(ust_locked_of, StoredPositions) = state.total_ust_locked

\* C4's case: before the freeze, with claims enabled, after a deposit, a
\* delegation and a claim, with principal still locked.
C4_Witness ==
    /\ hist.freezes = 0
    /\ state.are_claims_allowed
    /\ state.total_mars_delegated > 0
    /\ last.op = "ClaimRewardsAndUnlock"
    /\ state.total_ust_locked > 0

DepositMsg(duration, amount) ==
    ExecuteMsg("DepositUst", duration, amount, FALSE, NoConfig, NoCallback)

WithdrawMsg(duration, amount) ==
    ExecuteMsg("WithdrawUst", duration, amount, FALSE, NoConfig, NoCallback)

ClaimMsg(duration, forceful) ==
    ExecuteMsg("ClaimRewardsAndUnlock", duration, 0, forceful, NoConfig, NoCallback)

\* C5: at a time where withdrawals are open, whenever a deposit of a into
\* (sender, d) succeeds, a WithdrawUst of a from (sender, d) at the same time
\* succeeds on the ledger the deposit left, and total_ust_locked and
\* total_deposits_weight are back at their values before the deposit.
C5_DepositWithdrawRoundTrip ==
    \A sender \in Depositors, a \in 1 .. MaxLocked, d \in Durations :
        \A dep \in { transaction(Ledger, now,
                                 MsgInfo(sender, << Coin(UUSD_DENOM, a) >>),
                                 DepositMsg(d, a), NoExternal) } :
            (dep.ok /\ is_withdraw_open(now, config)) =>
                \A w \in { transaction(dep.L, now, MsgInfo(sender, <<>>),
                                       WithdrawMsg(d, a), NoExternal) } :
                    /\ w.ok
                    /\ w.L.state.total_ust_locked = state.total_ust_locked
                    /\ w.L.state.total_deposits_weight = state.total_deposits_weight

CallbackMsgs ==
    { Msg(kind, user, amount, duration, forceful) :
        kind \in CallbackKinds, user \in Users, amount \in 0 .. MaxLocked,
        duration \in Durations, forceful \in BOOLEAN }

ForgedCallback(cb) == ExecuteMsg("Callback", 0, 0, FALSE, NoConfig, cb)

\* C7: a Callback message whose sender is not the contract is rejected: the
\* entry point returns an error, emits nothing and leaves the ledger as it was.
C7_ForgedCallbackRejected ==
    \A sender \in Senders, cb \in CallbackMsgs :
        \A r \in { execute(Ledger, World(External(0, MaxAccrued, TRUE)), now,
                           MsgInfo(sender, <<>>), ForgedCallback(cb)) } :
            /\ ~r.ok
            /\ r.L = Ledger
            /\ r.msgs = <<>>

\* C7's case: a DissolvePosition for a funded position that the contract's own
\* resumption would carry out, sent by somebody else and rejected.
C7_Witness ==
    \E sender \in Senders, cb \in CallbackMsgs :
        /\ cb.kind = "DissolvePosition"
        /\ load_lockup(Ledger, cb.user, cb.duration).ust_locked > 0
        /\ calculate_ma_ust_share(load_lockup(Ledger, cb.user, cb.duration).ust_locked,
                                  state.final_ust_locked, state.final_maust_locked) > 0
        /\ _handle_callback(Ledger, World(NoExternal), ContractAddr, cb).ok
        /\ ~execute(Ledger, World(NoExternal), now, MsgInfo(sender, <<>>),
                    ForgedCallback(cb)).ok

\* C8: a claim (duration 0) that directly follows a claim (duration 0) of the
\* same user, nothing accrued in between, transfers no xMARS and no MARS.
C8_SecondClaimPaysNothing ==
    last.repeat =>
        Kinds(last.msgs) \cap {"transfer_xmars", "transfer_mars"} = {}

\* C8's case: the second of two such claims, the first of which paid xMARS.
C8_Witness ==
    /\ last.repeat
    /\ user_info[last.sender].total_xmars_claimed > 0
    /\ user_info[last.sender].lockdrop_claimed

\* C9: a forceful dissolve emits the transfer_from (user -> contract) of the
\* position's cached lockdrop_reward and after it the maUST transfer; a natural
\* dissolve emits no transfer_from.  Stated of the dissolve step on every
\* reachable ledger, and of the order in which a committed transaction ran.
C9_ClawbackBeforeRelease ==
    /\ \A user \in Users, d \in Durations :
           /\ \A r \in { try_dissolve_position(Ledger, user, d, TRUE) } :
                  r.ok =>
                      /\ Len(r.msgs) = 2
                      /\ r.msgs[1] = Msg("transfer_from_mars", user,
                                         load_lockup(Ledger, user, d).lockdrop_reward,
                                         0, FALSE)
                      /\ r.msgs[2].kind = "transfer_maust"
                      /\ r.msgs[2].user = user
           /\ \A r \in { try_dissolve_position(Ledger, user, d, FALSE) } :
                  r.ok => "transfer_from_mars" \notin Kinds(r.msgs)
    /\ \A i \in 1 .. Len(last.msgs) :
           last.msgs[i].kind = "DissolvePosition" =>
               IF last.msgs[i].forceful
               THEN /\ i + 2 = Len(last.msgs)
                    /\ last.msgs[i + 1].kind = "transfer_from_mars"
                    /\ last.msgs[i + 1].user = last.msgs[i].user
                    /\ last.msgs[i + 2].kind = "transfer_maust"
                    /\ last.msgs[i + 2].user = last.msgs[i].user
               ELSE /\ i + 1 = Len(last.msgs)
                    /\ last.msgs[i + 1].kind = "transfer_maust"
                    /\ "transfer_from_mars" \notin Kinds(last.msgs)

\* C9's case: a committed forceful dissolve that clawed back a nonzero reward.
C9_Witness ==
    /\ last.op = "ClaimRewardsAndUnlock"
    /\ last.forceful_unlock
    /\ \E i \in 1 .. Len(last.msgs) :
           /\ last.msgs[i].kind = "transfer_from_mars"
           /\ last.msgs[i].amount > 0

\* C10: after the freeze, with claims enabled, the owner of a position with
\* nonzero principal releases it with forceful_unlock = false at any time from
\* unlock_timestamp on: the transaction succeeds and the position is dissolved.
\* The external transfers succeed: shares were minted and the claim's MARS
\* payout is not a zero amount.
C10_NaturalReleaseSucceeds ==
    (hist.freezes >= 1 /\ state.are_claims_allowed /\ state.final_maust_locked > 0) =>
        \A user \in Users, d \in Durations :
            ( /\ lockup_info[LockupId(user, d)].ust_locked > 0
              /\ now >= lockup_info[LockupId(user, d)].unlock_timestamp
              /\ \/ user_info[user].lockdrop_claimed
                 \/ user_info[user].total_mars_incentives
                      > user_info[user].delegated_mars_incentives ) =>
                \A t \in { transaction(Ledger, now, MsgInfo(user, <<>>),
                                       ClaimMsg(d, FALSE), NoExternal) } :
                    /\ t.ok
                    /\ t.L.lockup_info[LockupId(user, d)].ust_locked = 0

\* a deposit or a withdrawal that would succeed now
CanStillMove ==
    \E sender \in Users, d \in Durations, a \in 1 .. MaxLocked :
        \/ transaction(Ledger, now, MsgInfo(sender, << Coin(UUSD_DENOM, a) >>),
                       DepositMsg(d, a), NoExternal).ok
        \/ transaction(Ledger, now, MsgInfo(sender, <<>>),
                       WithdrawMsg(d, a), NoExternal).ok

\* r, the handler's result for user u, wrote an incentive: the lockdrop_reward
\* of a position or the user's total_mars_incentives
IncentiveCached(r, u) ==
    /\ r.ok
    /\ \/ \E id \in LockupIds :
              r.L.lockup_info[id].lockdrop_reward # lockup_info[id].lockdrop_reward
       \/ r.L.user_info[u].total_mars_incentives # user_info[u].total_mars_incentives

\* C11: whenever the auction contract sent EnableClaims, neither the claim
\* handler nor the delegate handler computes and writes an incentive share (a
\* position's lockdrop_reward, a user's total_mars_incentives) at a time at
\* which a deposit or a withdrawal can still succeed.
C11_NoIncentiveFixedWhileWindowsOpen ==
    \A u \in Users :
        /\ \A r \in { handle_claim_rewards_and_unlock_position(
                          Ledger, World(NoExternal), now, u, 0, FALSE) } :
               IncentiveCached(r, u) => ~CanStillMove
        /\ \A amount \in 0 .. MaxDelegated :
               \A r \in { handle_deposit_mars_to_auction(Ledger, now, u, amount) } :
                   IncentiveCached(r, u) => ~CanStillMove

\* the pro-rata share of the frozen principal, from the stored records
share_formula(u) ==
    calculate_ma_ust_share(user_info[u].total_ust_locked, state.final_ust_locked,
                           state.final_maust_locked)

\* the maUST the dissolves of a trace released to u
RECURSIVE released(_, _, _)
released(trace, u, i) ==
    IF i > Len(trace) THEN 0
    ELSE (IF trace[i].kind = "transfer_maust" /\ trace[i].user = u
          THEN trace[i].amount ELSE 0)
           + released(trace, u, i + 1)

\* a step that changes a stored total_maust_share either assigns it, from 0, to
\* the pro-rata formula, after a freeze and for the first time, or takes from it
\* what the dissolve of the transaction released
C12_ShareStep ==
    \A u \in Users :
        /\ user_info'[u].total_maust_share > user_info[u].total_maust_share =>
               /\ user_info[u].total_maust_share = 0
               /\ user_info'[u].total_maust_share = share_formula(u)
               /\ hist.freezes >= 1
               /\ hist.share_assignments[u] = 0
        /\ user_info'[u].total_maust_share < user_info[u].total_maust_share =>
               /\ "DissolvePosition" \in Kinds(last'.msgs)
               /\ user_info'[u].total_maust_share
                    = user_info[u].total_maust_share - released(last'.msgs, u, 1)

\* C12: every user's stored total_maust_share is assigned from
\* final_maust_locked * total_ust_locked / final_ust_locked at most once, after
\* the freeze; every other change is the decrement of a dissolve, and a claim
\* of a user who has dissolved all positions leaves it at what the dissolves
\* left.
C12_ShareAssignedOnce ==
    /\ [](\A u \in Users : hist.share_assignments[u] <= 1)
    /\ [][C12_ShareStep]_vars

\* C12's case: a user whose share was assigned and who dissolved every position
\* has claimed again, and the share is what the dissolves left of it.
C12_Witness ==
    /\ last.op = "ClaimRewardsAndUnlock"
    /\ last.duration = 0
    /\ hist.share_assignments[last.sender] = 1
    /\ user_info[last.sender].lockup_positions = <<>>
    /\ user_info[last.sender].total_ust_locked > 0
    /\ user_info[last.sender].total_maust_share = 0
    /\ state.final_maust_locked > 0

\* a step never lowers state.xmars_rewards_index, and changes it only in a
\* transaction that ran UpdateStateOnClaim with xMARS accrued
C13_IndexStep ==
    /\ state'.xmars_rewards_index >= state.xmars_rewards_index
    /\ state'.xmars_rewards_index # state.xmars_rewards_index =>
           /\ "UpdateStateOnClaim" \in Kinds(last'.msgs)
           /\ hist'.accrued > hist.accrued

\* none of the other handlers and resumptions touches the index
C13_OthersKeepIndex ==
    /\ \A u \in Users, d \in Durations, f \in BOOLEAN :
           /\ try_dissolve_position(Ledger, u, d, f).L.state.xmars_rewards_index
                = state.xmars_rewards_index
           /\ handle_claim_rewards_and_unlock_position(
                  Ledger, World(External(0, MaxAccrued, TRUE)), now, u, d, f)
                .L.state.xmars_rewards_index = state.xmars_rewards_index
    /\ \A minted \in 0 .. MaxLocked :
           update_state_on_red_bank_deposit(
               Ledger, [World(NoExternal) EXCEPT !.maust_balance = minted], 0)
             .L.state.xmars_rewards_index = state.xmars_rewards_index

\* C13: state.xmars_rewards_index never decreases, in any transition and for
\* any amount update_xmars_rewards_index is given, and it changes only in the
\* UpdateStateOnClaim resumption.
C13_RewardIndexMonotonic ==
    /\ [](\A a \in 0 .. MaxAccrued :
              update_xmars_rewards_index(state, a).xmars_rewards_index
                >= state.xmars_rewards_index)
    /\ []C13_OthersKeepIndex
    /\ [][C13_IndexStep]_vars

\* C13's case: a claim in which xMARS accrued, the index rose and the user was
\* paid from it.
C13_Witness ==
    /\ last.op = "ClaimRewardsAndUnlock"
    /\ state.xmars_rewards_index > 0
    /\ "claim_xmars" \in Kinds(last.msgs)
    /\ "transfer_xmars" \in Kinds(last.msgs)

\* under every configuration instantiate accepts, the deposit window being over
\* implies the withdrawal window is over
WithdrawalEndsBeforeDeposits ==
    \A dw \in 1 .. MaxWindow, ww \in 1 .. MaxWindow :
        instantiate_ok([InstantiateMsg EXCEPT !.deposit_window = dw,
                                              !.withdrawal_window = ww], 0) =>
            \A cfg \in { instantiate_config(
                             [InstantiateMsg EXCEPT !.deposit_window = dw,
                                                    !.withdrawal_window = ww]) } :
                \A time \in 0 .. (cfg.init_timestamp + 2 * MaxWindow) :
                    (time >= cfg.init_timestamp /\ ~is_deposit_open(time, cfg)) =>
                        ~is_withdraw_open(time, cfg)

\* a DepositUstInRedBank that returns Ok comes from the owner at a time >=
\* init_timestamp with neither window open; a failing one returns the ledger
\* as it was and no message; outside these conditions the transaction fails
C14_FreezeChecked ==
    \A sender \in Senders, minted \in {0, MaxLocked} :
        /\ \A r \in { execute(Ledger, World(External(minted, 0, TRUE)), now,
                              MsgInfo(sender, <<>>), FreezeMsg) } :
               /\ r.ok => /\ sender = config.owner
                          /\ now >= config.init_timestamp
                          /\ ~is_deposit_open(now, config)
                          /\ ~is_withdraw_open(now, config)
               /\ ~r.ok => /\ r.L = Ledger
                           /\ r.msgs = <<>>
        /\ \A t \in { transaction(Ledger, now, MsgInfo(sender, <<>>), FreezeMsg,
                                  External(minted, 0, TRUE)) } :
               ( \/ sender # config.owner
                 \/ now < config.init_timestamp
                 \/ is_deposit_open(now, config)
                 \/ is_withdraw_open(now, config) ) =>
                   /\ ~t.ok
                   /\ t.L = Ledger
                   /\ t.trace = <<>>

\* C14: DepositUstInRedBank succeeds only for the owner at a time >=
\* init_timestamp at which neither deposits nor withdrawals are open; in every
\* other case the handler fails, emits no venue deposit and leaves the ledger
\* as it was, and so does the transaction.  The handler tests the deposit
\* window alone, which is enough under every configuration instantiate accepts.
C14_FreezeOnlyByOwnerAfterWindows ==
    /\ WithdrawalEndsBeforeDeposits
    /\ []C14_FreezeChecked

\* C14's case: the owner's freeze of locked principal has committed after the
\* windows, while the same message from anybody else is refused.
C14_Witness ==
    /\ last.op = "DepositUstInRedBank"
    /\ last.sender = config.owner
    /\ state.final_ust_locked > 0
    /\ ~is_deposit_open(now, config)
    /\ \E sender \in Senders \ {config.owner} :
           ~execute(Ledger, World(NoExternal), now, MsgInfo(sender, <<>>), FreezeMsg).ok

C16_PayoutStep ==
    \A u \in Users :
        /\ user_info[u].lockdrop_claimed => user_info'[u].lockdrop_claimed
        /\ (~user_info[u].lockdrop_claimed /\ user_info'[u].lockdrop_claimed) =>
               /\ hist.mars_payouts[u] = 0
               /\ \E i \in 1 .. Len(last'.msgs) :
                      /\ last'.msgs[i].kind = "UpdateStateOnClaim"
                      /\ last'.msgs[i].user = u
               /\ \E i \in 1 .. Len(last'.msgs) :
                      last'.msgs[i] =
                          Msg("transfer_mars", u,
                              user_info[u].total_mars_incentives
                                - user_info[u].delegated_mars_incentives,
                              0, FALSE)
        /\ hist'.mars_payouts[u] # hist.mars_payouts[u] =>
               /\ ~user_info[u].lockdrop_claimed
               /\ user_info'[u].lockdrop_claimed

\* C16: per user at most one transaction ever pays MARS; it is the one in which
\* lockdrop_claimed goes from false to true, the first UpdateStateOnClaim of
\* the user; it pays total_mars_incentives - delegated_mars_incentives; the
\* flag never goes back and no later claim pays MARS.
C16_IncentivePaidOnce ==
    /\ [](\A u \in Users :
              /\ hist.mars_payouts[u] <= 1
              /\ user_info[u].lockdrop_claimed <=> hist.mars_payouts[u] = 1)
    /\ [][C16_PayoutStep]_vars

\* C16's case: a user who was paid MARS once has claimed again in a
\* transaction that transferred no MARS.
C16_Witness ==
    /\ last.op = "ClaimRewardsAndUnlock"
    /\ hist.mars_payouts[last.sender] = 1
    /\ user_info[last.sender].lockdrop_claimed
    /\ "UpdateStateOnClaim" \in Kinds(last.msgs)
    /\ "transfer_mars" \notin Kinds(last.msgs)

\* the incentives of the positions of a list, summed in list order
RECURSIVE SumPositions(_, _)
SumPositions(positions, i) ==
    IF i > Len(positions) THEN 0
    ELSE incentive_share[positions[i]] + SumPositions(positions, i + 1)

\* what a user's total_mars_incentives is on the delegate path: the stored
\* value, or when that is 0 the sum over the user's positions
entitled(u) ==
    IF user_info[u].total_mars_incentives # 0
    THEN user_info[u].total_mars_incentives
    ELSE SumPositions(user_info[u].lockup_positions, 1)

\* the MARS a user can still delegate
delegatable(u) == entitled(u) - user_info[u].delegated_mars_incentives

\* the amounts tried: the small ones, and those around the limit
DelegationAmounts(u) ==
    (0 .. MaxDelegated) \cup { a \in { delegatable(u), delegatable(u) + 1,
                                       2 * config.lockdrop_incentives } : a >= 0 }

\* C17: a DepositMarsToAuction of more than total_mars_incentives -
\* delegated_mars_incentives fails and leaves the ledger as it was; a successful
\* one adds exactly the amount to the user's delegated_mars_incentives and to
\* state.total_mars_delegated; in every reachable state every user's
\* delegated_mars_incentives is at most the user's total_mars_incentives.
C17_DelegationWithinEntitlement ==
    \A u \in Users :
        /\ user_info[u].delegated_mars_incentives <= user_info[u].total_mars_incentives
        /\ \A amount \in DelegationAmounts(u) :
               \A r \in { handle_deposit_mars_to_auction(Ledger, now, u, amount) } :
                   /\ r.ok =>
                          /\ amount <= delegatable(u)
                          /\ r.L.user_info[u].total_mars_incentives = entitled(u)
                          /\ r.L.user_info[u].delegated_mars_incentives
                               = user_info[u].delegated_mars_incentives + amount
                          /\ r.L.state.total_mars_delegated
                               = state.total_mars_delegated + amount
                          /\ r.msgs = << Msg("cw20_send_mars_to_auction", u, amount,
                                             0, FALSE) >>
                   /\ amount > delegatable(u) =>
                          /\ ~r.ok
                          /\ r.L = Ledger
                          /\ r.msgs = <<>>

\* C17's case: a user has delegated, may delegate exactly what is left, and is
\* refused one unit more.
C17_Witness ==
    /\ last.op = "DepositMarsToAuction"
    /\ user_info[last.sender].delegated_mars_incentives > 0
    /\ delegatable(last.sender) > 0
    /\ handle_deposit_mars_to_auction(Ledger, now, last.sender,
                                      delegatable(last.sender)).ok
    /\ ~handle_deposit_mars_to_auction(Ledger, now, last.sender,
                                       delegatable(last.sender) + 1).ok

\* the time from which delegation is open
DelegationOpensAt == config.init_timestamp + config.deposit_window + config.withdrawal_window

\* a step that changes what is delegated is taken at a time >= the end of both
\* windows with are_claims_allowed false; with are_claims_allowed true nothing
\* delegated changes and the flag stays
C18_DelegationStep ==
    /\ ( \/ state'.total_mars_delegated # state.total_mars_delegated
         \/ \E u \in Users : user_info'[u].delegated_mars_incentives
                               # user_info[u].delegated_mars_incentives ) =>
           /\ now >= DelegationOpensAt
           /\ ~state.are_claims_allowed
           /\ last'.op = "DepositMarsToAuction"
    /\ state.are_claims_allowed => state'.are_claims_allowed

\* C18: DepositMarsToAuction succeeds only at a time >= init_timestamp +
\* deposit_window + withdrawal_window with are_claims_allowed false; from the
\* moment are_claims_allowed is true every DepositMarsToAuction fails, in that
\* state and in every later one.
C18_DelegationGated ==
    /\ [](\A u \in Users, amount \in 0 .. MaxDelegated :
              \A r \in { handle_deposit_mars_to_auction(Ledger, now, u, amount) } :
                  /\ r.ok => (now >= DelegationOpensAt /\ ~state.are_claims_allowed)
                  /\ state.are_claims_allowed => (~r.ok /\ r.L = Ledger))
    /\ [][C18_DelegationStep]_vars

\* C18's case: claims are enabled after a delegation, and a user with positions
\* and MARS left to delegate is refused at a time at which delegation was open.
C18_Witness ==
    /\ state.are_claims_allowed
    /\ state.total_mars_delegated > 0
    /\ now >= DelegationOpensAt
    /\ \E u \in Users :
           /\ Len(user_info[u].lockup_positions) > 0
           /\ delegatable(u) > 0
           /\ ~handle_deposit_mars_to_auction(Ledger, now, u, 1).ok

EnableClaimsMsg == ExecuteMsg("EnableClaims", 0, 0, FALSE, NoConfig, NoCallback)

\* are_claims_allowed never goes back to false, and goes to true only in an
\* EnableClaims sent by the configured auction contract
C19_ClaimsFlagStep ==
    /\ state.are_claims_allowed => state'.are_claims_allowed
    /\ (~state.are_claims_allowed /\ state'.are_claims_allowed) =>
           /\ last'.op = "EnableClaims"
           /\ last'.sender = config.auction_contract_address

\* EnableClaims succeeds only for the auction contract with the flag false, and
\* then sets the flag and nothing else; every other EnableClaims fails and
\* changes nothing
C19_EnableClaimsChecked ==
    \A sender \in Senders :
        \A r \in { execute(Ledger, World(NoExternal), now, MsgInfo(sender, <<>>),
                           EnableClaimsMsg) } :
            IF sender = config.auction_contract_address /\ ~state.are_claims_allowed
            THEN /\ r.ok
                 /\ r.L = [Ledger EXCEPT !.state.are_claims_allowed = TRUE]
            ELSE /\ ~r.ok
                 /\ r.L = Ledger

\* C19: are_claims_allowed starts false and changes only from false to true,
\* only through an EnableClaims sent by the configured auction contract;
\* EnableClaims from any other sender fails, a second EnableClaims fails, and
\* no operation sets the flag back to false.
C19_ClaimsFlagMonotonic ==
    /\ ~state.are_claims_allowed
    /\ []C19_EnableClaimsChecked
    /\ [][C19_ClaimsFlagStep]_vars

\* C19's case: the flag is true, operations have committed since it was set,
\* and a second EnableClaims of the auction contract is refused.
C19_Witness ==
    /\ state.are_claims_allowed
    /\ last.op = "ClaimRewardsAndUnlock"
    /\ ~execute(Ledger, World(NoExternal), now,
                MsgInfo(config.auction_contract_address, <<>>), EnableClaimsMsg).ok

\* C20: a ClaimRewardsAndUnlock with a nonzero duration and forceful_unlock =
\* false at a time before the position's unlock_timestamp fails, reporting the
\* seconds left, and changes nothing; one that names a position without
\* principal fails; whether a forceful unlock passes the handler does not
\* depend on the time.
C20_NoNaturalUnlockBeforeTime ==
    \A u \in Users, d \in Durations :
        \A p \in { load_lockup(Ledger, u, d) }, W \in { World(External(0, MaxAccrued, TRUE)) } :
            /\ \A r \in { handle_claim_rewards_and_unlock_position(
                              Ledger, W, now, u, d, FALSE) } :
                   /\ (p.ust_locked > 0 /\ now < p.unlock_timestamp) =>
                          /\ ~r.ok
                          /\ r.L = Ledger
                          /\ r.msgs = <<>>
                          /\ claim_error(Ledger, now, u, d, FALSE, p)
                               = [ text |-> "seconds to Unlock",
                                   time_remaining |-> p.unlock_timestamp - now ]
                   /\ r.ok => (p.ust_locked > 0 /\ now >= p.unlock_timestamp)
            /\ \A r \in { handle_claim_rewards_and_unlock_position(
                              Ledger, W, now, u, d, TRUE) } :
                   /\ p.ust_locked = 0 =>
                          /\ ~r.ok
                          /\ r.L = Ledger
                          /\ claim_error(Ledger, now, u, d, TRUE, p).text = "Invalid lockup"
                          /\ claim_error(Ledger, now, u, d, FALSE, p).text = "Invalid lockup"
                   /\ \A time \in 0 .. MaxTime :
                          handle_claim_rewards_and_unlock_position(
                              Ledger, W, time, u, d, TRUE).ok = r.ok
            /\ now < p.unlock_timestamp =>
                   ~transaction(Ledger, now, MsgInfo(u, <<>>), ClaimMsg(d, FALSE),
                                External(0, MaxAccrued, TRUE)).ok

\* C20's case: with claims enabled, a position with principal whose
\* unlock_timestamp lies ahead: the natural unlock is refused and the forceful
\* unlock of the same position commits.
C20_Witness ==
    \E u \in Users, d \in Durations :
        /\ state.are_claims_allowed
        /\ lockup_info[LockupId(u, d)].ust_locked > 0
        /\ now < lockup_info[LockupId(u, d)].unlock_timestamp
        /\ ~handle_claim_rewards_and_unlock_position(
                Ledger, World(NoExternal), now, u, d, FALSE).ok
        /\ transaction(Ledger, now, MsgInfo(u, <<>>), ClaimMsg(d, TRUE), NoExternal).ok

\* the largest amount try_withdraw_ust lets out of a position at a time
max_withdrawal_allowed(time, p) ==
    mul_dec(p.ust_locked, allowed_withdrawal_percent(time, config))

\* what a successful WithdrawUst of amount from (u, d) leaves, by the claim
WithdrawEffect(t, u, d, amount, p) ==
    /\ t.L.lockup_info[LockupId(u, d)].ust_locked = p.ust_locked - amount
    /\ t.L.user_info[u].total_ust_locked = user_info[u].total_ust_locked - amount
    /\ t.L.state.total_ust_locked = state.total_ust_locked - amount
    /\ t.L.state.total_deposits_weight =
           state.total_deposits_weight - calculate_weight(amount, d, config)
    /\ t.trace = << Msg("bank_send", u, amount, 0, FALSE) >>
    /\ (position(t.L.user_info[u].lockup_positions, LockupId(u, d), 1) = 0)
           <=> (p.ust_locked = amount)

\* C21: while withdrawals are open, a WithdrawUst of an amount within the cap
\* from a position with principal succeeds, whatever deposits and withdrawals
\* built the position; it lowers the position, the user total and the global
\* total by the amount and total_deposits_weight by the weight of the amount,
\* sends the amount to the user, and the id leaves the user's list exactly when
\* the principal reaches zero.
C21_WithdrawalWithinCapSucceeds ==
    \A u \in Depositors, d \in Durations, amount \in 1 .. MaxLocked :
        \A p \in { load_lockup(Ledger, u, d) } :
            ( /\ is_withdraw_open(now, config)
              /\ p.ust_locked > 0
              /\ amount <= max_withdrawal_allowed(now, p) ) =>
                \A t \in { transaction(Ledger, now, MsgInfo(u, <<>>),
                                       WithdrawMsg(d, amount), NoExternal) } :
                    /\ t.ok
                    /\ WithdrawEffect(t, u, d, amount, p)

\* the coin lists a DepositUst is tried with: none, one coin of uusd or of
\* another denomination, with or without an amount, and several coins
FundsCases ==
    { <<>> }
      \cup { << Coin(denom, a) >> : denom \in {UUSD_DENOM, "uluna"}, a \in {0, 1, MaxLocked} }
      \cup { << Coin(UUSD_DENOM, a), Coin(denom, 1) >> : denom \in {UUSD_DENOM, "uluna"}, a \in {0, 1} }

DepositPreconditions(time, funds, duration) ==
    /\ config.init_timestamp <= time
    /\ time <= config.init_timestamp + config.deposit_window
    /\ Len(funds) = 1
    /\ funds[1].denom = UUSD_DENOM
    /\ funds[1].amount > 0
    /\ config.min_lock_duration <= duration
    /\ duration <= config.max_lock_duration

\* what an accepted DepositUst of amount into (u, d) leaves
DepositEffect(r, u, d, amount) ==
    /\ r.L.lockup_info[LockupId(u, d)].stored
    /\ r.L.lockup_info[LockupId(u, d)].duration = d
    /\ r.L.lockup_info[LockupId(u, d)].ust_locked
           = load_lockup(Ledger, u, d).ust_locked + amount
    /\ r.L.user_info[u].total_ust_locked = user_info[u].total_ust_locked + amount
    /\ r.L.state.total_ust_locked = state.total_ust_locked + amount
    /\ r.msgs = <<>>

C22_DepositChecked ==
    \A u \in Users, funds \in FundsCases,
       d \in (config.min_lock_duration - 1) .. (config.max_lock_duration + 1) :
        \A r \in { execute(Ledger, World(NoExternal), now, MsgInfo(u, funds),
                           DepositMsg(d, 0)) } :
            /\ ~DepositPreconditions(now, funds, d) =>
                   /\ ~r.ok
                   /\ r.L = Ledger
                   /\ r.msgs = <<>>
            /\ DepositPreconditions(now, funds, d) =>
                   /\ r.ok
                   /\ DepositEffect(r, u, d, funds[1].amount)

\* C22: a DepositUst fails and leaves the ledger as it was when the time is
\* outside [init_timestamp, init_timestamp + deposit_window], when no coin or
\* several coins are attached, when the coin is not uusd, when its amount is
\* zero, or when the duration is outside [min_lock_duration,
\* max_lock_duration]; otherwise it succeeds, stores the (depositor, duration)
\* position and adds the amount to the position, the user's total and
\* state.total_ust_locked.
C22_DepositPreconditions == []C22_DepositChecked

\* C22's case: a deposit into a position that already held principal has
\* committed, at a time when the deposit window is still open.
C22_Witness ==
    /\ last.op = "DepositUst"
    /\ is_deposit_open(now, config)
    /\ lockup_info[LockupId(last.sender, last.duration)].ust_locked > last.amount
    /\ user_info[last.sender].total_ust_locked = state.total_ust_locked

C23_WithdrawChecked ==
    /\ \A u \in Users, d \in Durations, amount \in 0 .. (MaxLocked + 1) :
           \A p \in { load_lockup(Ledger, u, d) } :
               ( \/ now < config.init_timestamp
                 \/ now > config.init_timestamp + config.withdrawal_window
                 \/ ~p.stored
                 \/ p.ust_locked = 0
                 \/ amount > max_withdrawal_allowed(now, p)
                 \/ amount > p.ust_locked ) =>
                   /\ \A r \in { execute(Ledger, World(NoExternal), now, MsgInfo(u, <<>>),
                                         WithdrawMsg(d, amount)) } :
                          /\ ~r.ok
                          /\ r.L = Ledger
                          /\ r.msgs = <<>>
                   /\ \A t \in { transaction(Ledger, now, MsgInfo(u, <<>>),
                                             WithdrawMsg(d, amount), NoExternal) } :
                          /\ ~t.ok
                          /\ t.L = Ledger
                          /\ t.trace = <<>>
    /\ \A id \in LockupIds : lockup_info[id].ust_locked >= 0

WeightConfigs == { [config EXCEPT !.weekly_divider = dv] : dv \in {2, 3, 10} }

\* weight * divider = amount * (divider + (duration - 1) * multiplier): the
\* linear formula, cleared of its fraction
WeightIsLinear(amount, duration, cfg) ==
    calculate_weight(amount, duration, cfg) * cfg.weekly_divider
        = amount * (cfg.weekly_divider + (duration - 1) * cfg.weekly_multiplier)

WeightExample ==
    calculate_weight(1000, 4, [config EXCEPT !.weekly_multiplier = 1,
                                             !.weekly_divider = 10]) = 1300

WeightAtUnitDuration ==
    \A cfg \in WeightConfigs, amount \in 0 .. (MaxLocked + 1) :
        calculate_weight(amount, 1, cfg) = amount

WeightNonDecreasing ==
    \A cfg \in WeightConfigs, amount \in 0 .. (MaxLocked + 1), d \in 1 .. (MaxLocked + 1) :
        calculate_weight(amount, d, cfg) <= calculate_weight(amount, d + 1, cfg)

\* C24: calculate_weight(amount, duration) is amount * (1 + (duration - 1) *
\* weekly_multiplier / weekly_divider) for every amount and duration (1300 for
\* amount 1000, duration 4 and the ratio 1/10), so it is the amount at duration
\* 1 and does not decrease with the duration.
C24_WeightIsExact ==
    /\ WeightExample
    /\ WeightAtUnitDuration
    /\ WeightNonDecreasing
    /\ \A cfg \in WeightConfigs, amount \in 0 .. (MaxLocked + 1), d \in 1 .. (MaxLocked + 1) :
           WeightIsLinear(amount, d, cfg)

\* ------------------------------------------------ the end-to-end scenario
\* A second specification: the contract instantiated with the scenario's
\* configuration, one user who deposits once, withdraws in steps, the owner's
\* freeze with one share minted per uusd, and the user's delegation.
ScenarioMsg ==
    [ owner |-> OwnerAddr,
      auction_contract_address |-> AuctionAddr,
      init_timestamp |-> 1000,
      deposit_window |-> 1000,
      withdrawal_window |-> 200,
      min_duration |-> 1,
      max_duration |-> 10,
      seconds_per_week |-> 1,
      weekly_multiplier |-> 1,
      weekly_divider |-> 10,
      lockdrop_incentives |-> 10000000 ]

\* the scenario's inputs; the clock advances by tick up to end_time
Scenario ==
    [ user |-> "u1", duration |-> 4, deposit |-> 1000000, deposit_time |-> 1050,
      withdraw |-> 200000, withdraw_time |-> 1100, freeze_time |-> 2100,
      delegate |-> 1000000, tick |-> 50, end_time |-> 2200 ]

ScenarioLockupIds ==
    { LockupId(u, d) : u \in Users, d \in ScenarioMsg.min_duration .. ScenarioMsg.max_duration }

ScenarioInit ==
    /\ now = ScenarioMsg.init_timestamp
    /\ instantiate_ok(ScenarioMsg, now)
    /\ config = instantiate_config(ScenarioMsg)
    /\ state = DefaultState
    /\ user_info = [ u \in Users |-> DefaultUserInfo ]
    /\ lockup_info = [ id \in ScenarioLockupIds |-> DefaultLockupInfo ]
    /\ last = [ op |-> "instantiate", sender |-> OwnerAddr, duration |-> 0, amount |-> 0,
                forceful_unlock |-> FALSE, msgs |-> <<>>, repeat |-> FALSE ]
    /\ hist = [ freezes |-> 0, first_final_ust |-> 0, accrued |-> 0, plain |-> TRUE,
                share_assignments |-> [ u \in Users |-> 0 ],
                mars_payouts |-> [ u \in Users |-> 0 ],
                maust_out |-> [ u \in Users |-> 0 ],
                xmars_paid |-> [ u \in Users |-> 0 ],
                mars_paid |-> [ u \in Users |-> 0 ] ]

ScenarioTick ==
    /\ now < Scenario.end_time
    /\ now' = now + Scenario.tick
    /\ UNCHANGED <<config, state, user_info, lockup_info, last, hist>>

ScenarioDepositUst ==
    /\ ~lockup_info[LockupId(Scenario.user, Scenario.duration)].stored
    /\ Commit(MsgInfo(Scenario.user, << Coin(UUSD_DENOM, Scenario.deposit) >>),
              DepositMsg(Scenario.duration, Scenario.deposit), NoExternal)

ScenarioWithdrawUst ==
    /\ Commit(MsgInfo(Scenario.user, <<>>),
              WithdrawMsg(Scenario.duration, Scenario.withdraw), NoExternal)

ScenarioDepositUstInRedBank ==
    \E sender \in {OwnerAddr, Scenario.user} :
        /\ Commit(MsgInfo(sender, <<>>), FreezeMsg,
                  External(state.total_ust_locked, 0, TRUE))

ScenarioDepositMarsToAuction ==
    /\ state.total_mars_delegated = 0
    /\ Commit(MsgInfo(Scenario.user, <<>>),
              ExecuteMsg("DepositMarsToAuction", 0, Scenario.delegate, FALSE,
                         NoConfig, NoCallback),
              NoExternal)

ScenarioNext ==
    \/ ScenarioTick
    \/ ScenarioDepositUst
    \/ ScenarioWithdrawUst
    \/ ScenarioDepositUstInRedBank
    \/ ScenarioDepositMarsToAuction

ScenarioSpec == ScenarioInit /\ [][ScenarioNext]_vars

ScenarioPosition == lockup_info[LockupId(Scenario.user, Scenario.duration)]

\* the deposit of 1_000_000 at duration 4 weighs 1_300_000
ScenarioAfterDeposit ==
    (hist.plain /\ ScenarioPosition.ust_locked = Scenario.deposit) =>
        /\ state.total_ust_locked = 1000000
        /\ state.total_deposits_weight = 1300000

\* at t = 1100 the withdrawal of 200_000 succeeds and leaves 800_000, weight
\* 1_040_000
ScenarioWithdrawal ==
    (hist.plain /\ ScenarioPosition.ust_locked = Scenario.deposit
       /\ now = Scenario.withdraw_time) =>
        \A t \in { transaction(Ledger, now, MsgInfo(Scenario.user, <<>>),
                               WithdrawMsg(Scenario.duration, Scenario.withdraw),
                               NoExternal) } :
            /\ t.ok
            /\ t.L.lockup_info[LockupId(Scenario.user, Scenario.duration)].ust_locked = 800000
            /\ t.L.state.total_deposits_weight = 1040000
            /\ t.trace = << Msg("bank_send", Scenario.user, Scenario.withdraw, 0, FALSE) >>

\* at t = 2100 the owner's freeze of the 800_000 succeeds
ScenarioFreeze ==
    (hist.plain /\ ScenarioPosition.ust_locked = 800000 /\ now = Scenario.freeze_time) =>
        \A t \in { transaction(Ledger, now, MsgInfo(OwnerAddr, <<>>), FreezeMsg,
                               External(800000, 0, TRUE)) } :
            /\ t.ok
            /\ t.L.state.final_ust_locked = 800000
            /\ t.L.state.final_maust_locked = 800000
            /\ state.total_deposits_weight = 1040000

\* after that freeze the share and the incentive the handlers compute for the
\* user are 800_000 and 10_000_000, and they are what a delegation stores
ScenarioShares ==
    (hist.freezes = 1 /\ state.final_ust_locked = 800000
       /\ state.final_maust_locked = 800000) =>
        /\ with_maust_share(Ledger, user_info[Scenario.user]).total_maust_share = 800000
        /\ \A v \in { lazy_updates(Ledger, user_info[Scenario.user]) } :
               /\ v.ok
               /\ v.ui.total_mars_incentives = 10000000
        /\ last.op = "DepositMarsToAuction" =>
               /\ user_info[Scenario.user].total_maust_share = 800000
               /\ user_info[Scenario.user].total_mars_incentives = 10000000
               /\ ScenarioPosition.lockdrop_reward = 10000000

\* C25: with init_timestamp 1000, deposit_window 1000, withdrawal_window 200,
\* durations 1..10, the ratio 1/10 and a pool of 10_000_000, one user's deposit
\* of 1_000_000 at duration 4 gives total_deposits_weight 1_300_000; the
\* withdrawal of 200_000 at t = 1100 succeeds and leaves principal 800_000 and
\* weight 1_040_000; the owner's freeze at t = 2100 succeeds; with 800_000
\* shares minted the user's total_maust_share is 800_000 and the incentive
\* 10_000_000.
C25_EndToEndScenario ==
    /\ ScenarioAfterDeposit
    /\ ScenarioWithdrawal
    /\ ScenarioFreeze
    /\ ScenarioShares

\* C25's case: the scenario has run to its end: 800_000 frozen for 800_000
\* shares, and the user's delegation has stored the share and the incentive.
C25_Witness ==
    /\ hist.freezes = 1
    /\ state.final_ust_locked = 800000
    /\ state.final_maust_locked = 800000
    /\ last.op = "DepositMarsToAuction"
    /\ user_info[Scenario.user].total_maust_share = 800000

\* the lockdrop_reward of the positions of a list, summed in list order
RECURSIVE SumRewards(_, _, _)
SumRewards(info, positions, i) ==
    IF i > Len(positions) THEN 0
    ELSE info[positions[i]].lockdrop_reward + SumRewards(info, positions, i + 1)

ListedPositions(ui) == { ui.lockup_positions[i] : i \in 1 .. Len(ui.lockup_positions) }

\* a step keeps a stored total_mars_incentives that is not 0 and the
\* lockdrop_reward of every position the user still has; the step that stores
\* the total stores the sum of the lockdrop_reward of the user's positions
C26_IncentiveStep ==
    \A u \in Users :
        /\ user_info[u].total_mars_incentives # 0 =>
               /\ user_info'[u].total_mars_incentives = user_info[u].total_mars_incentives
               /\ \A id \in ListedPositions(user_info'[u]) :
                      /\ id \in ListedPositions(user_info[u])
                      /\ lockup_info'[id].lockdrop_reward = lockup_info[id].lockdrop_reward
        /\ (user_info[u].total_mars_incentives = 0
              /\ user_info'[u].total_mars_incentives # 0) =>
               user_info'[u].total_mars_incentives
                   = SumRewards(lockup_info', user_info'[u].lockup_positions, 1)

\* with a stored total that is not 0 neither handler writes an incentive
C26_HandlersKeepCache ==
    \A u \in Users :
        user_info[u].total_mars_incentives # 0 =>
            /\ \A d \in {0} \cup Durations, forceful \in BOOLEAN :
                   ~IncentiveCached(handle_claim_rewards_and_unlock_position(
                                        Ledger, World(NoExternal), now, u, d, forceful), u)
            /\ \A amount \in 0 .. MaxDelegated :
                   ~IncentiveCached(handle_deposit_mars_to_auction(Ledger, now, u, amount), u)

FundedPositions(u) ==
    { id \in DOMAIN lockup_info : id[1] = u /\ lockup_info[id].ust_locked # 0 }

\* C27: in every reachable state a user's lockup_positions holds, once each,
\* the ids of exactly those of the user's positions whose ust_locked is not 0,
\* after any deposits, partial and full withdrawals, deposits into a position
\* that was fully withdrawn, and dissolves.
C27_PositionKeysMatchFunded ==
    \A u \in Users :
        /\ ListedPositions(user_info[u]) = FundedPositions(u)
        /\ Len(user_info[u].lockup_positions) = Cardinality(FundedPositions(u))

\* the principal of the user's stored positions
UserPositions(u) == { id \in StoredPositions : id[1] = u }

\* C28: in every reachable state a user's total_ust_locked is the sum of
\* ust_locked over the user's stored positions, before the freeze and after
\* positions were dissolved.
C28_UserPrincipalIsSumOfPositions ==
    \A u \in Users :
        user_info[u].total_ust_locked = SumOver(ust_locked_of, UserPositions(u))

\* a stored position that holds principal carries the duration of its key,
\* within the configured range, and the unlock time of that duration
C29_PositionWellFormed ==
    \A id \in DOMAIN lockup_info :
        (lockup_info[id].stored /\ lockup_info[id].ust_locked # 0) =>
            /\ lockup_info[id].duration = id[2]
            /\ config.min_lock_duration <= lockup_info[id].duration
            /\ lockup_info[id].duration <= config.max_lock_duration
            /\ lockup_info[id].unlock_timestamp
                   = config.init_timestamp + config.deposit_window
                       + lockup_info[id].duration * config.seconds_per_week

\* a step leaves the duration and the unlock time of a position that stays
\* stored as they were
C29_UnlockStep ==
    \A id \in DOMAIN lockup_info :
        (lockup_info[id].stored /\ lockup_info'[id].stored) =>
            /\ lockup_info'[id].duration = lockup_info[id].duration
            /\ lockup_info'[id].unlock_timestamp = lockup_info[id].unlock_timestamp

\* C29: every stored position with principal has a duration within
\* [min_lock_duration, max_lock_duration] and unlock_timestamp = init_timestamp
\* + deposit_window + duration * seconds_per_week, which the first deposit
\* into the key sets and no later deposit or withdrawal changes.
C29_UnlockTimeFixedAtFirstDeposit ==
    /\ []C29_PositionWellFormed
    /\ [][C29_UnlockStep]_vars

\* C29's case: after the opening time, a position that was emptied and funded
\* again (its id is no longer listed), still stored with principal.
C29_Witness ==
    /\ last.op = "DepositUst"
    /\ now > config.init_timestamp
    /\ lockup_info[LockupId(last.sender, last.duration)].ust_locked > 0
    /\ position(user_info[last.sender].lockup_positions,
                LockupId(last.sender, last.duration), 1) = 0

\* UpdateConfig messages that also carry values for the time fields: an
\* Option<u64> is <<>> for None and <<v>> for Some(v)
UpdateConfigMsgs ==
    [ owner : {NoneAddr, "u2"},
      auction_contract_address : {NoneAddr},
      init_timestamp : { <<>>, <<0>>, <<MaxTime>> },
      deposit_window : { <<>>, <<1>> },
      withdrawal_window : { <<>>, <<MaxTime>> },
      min_duration : { <<>>, <<MaxTime>> } ]

TimeFields(cfg) ==
    << cfg.init_timestamp, cfg.deposit_window, cfg.withdrawal_window,
       cfg.min_lock_duration, cfg.max_lock_duration, cfg.seconds_per_week >>

\* an UpdateConfig of another sender than the owner fails and leaves the ledger
\* as it was; one that succeeds leaves the time fields as they were, whatever
\* the message carries; the relations instantiate validated hold
C30_UpdateConfigChecked ==
    /\ \A sender \in Senders, m \in UpdateConfigMsgs :
           \A r \in { execute(Ledger, World(NoExternal), now, MsgInfo(sender, <<>>),
                              ExecuteMsg("UpdateConfig", 0, 0, FALSE, m, NoCallback)) } :
               /\ sender # config.owner =>
                      /\ ~r.ok
                      /\ r.L = Ledger
               /\ r.ok => TimeFields(r.L.config) = TimeFields(config)
    /\ config.deposit_window > config.withdrawal_window
    /\ config.withdrawal_window > 0
    /\ config.max_lock_duration > config.min_lock_duration

\* a step changes the configuration only as an UpdateConfig of the owner; it
\* never lowers init_timestamp nor changes it once it has passed, and never
\* shortens a window nor changes it once its deadline has passed
C30_ConfigStep ==
    /\ config' # config =>
           /\ last'.op = "UpdateConfig"
           /\ last'.sender = config.owner
    /\ config'.init_timestamp >= config.init_timestamp
    /\ now > config.init_timestamp => config'.init_timestamp = config.init_timestamp
    /\ config'.deposit_window >= config.deposit_window
    /\ now > config.init_timestamp + config.deposit_window =>
           config'.deposit_window = config.deposit_window
    /\ config'.withdrawal_window >= config.withdrawal_window
    /\ now > config.init_timestamp + config.withdrawal_window =>
           config'.withdrawal_window = config.withdrawal_window

\* C30: UpdateConfig is owner-only (from anybody else it fails and leaves the
\* configuration as it was); no successful UpdateConfig lowers init_timestamp
\* or changes it after it has passed, nor shortens deposit_window or
\* withdrawal_window or changes them after their deadline; deposit_window >
\* withdrawal_window > 0 and max_lock_duration > min_lock_duration hold in every
\* reachable state.
C30_UpdateConfigKeepsSchedule ==
    /\ []C30_UpdateConfigChecked
    /\ [][C30_ConfigStep]_vars

\* C30's case: the owner's UpdateConfig has committed after init_timestamp and
\* handed the ownership over; the former owner's UpdateConfig is now refused.
C30_Witness ==
    /\ last.op = "UpdateConfig"
    /\ now > config.init_timestamp
    /\ config.owner = "u2"
    /\ ~transaction(Ledger, now, MsgInfo(OwnerAddr, <<>>),
                    ExecuteMsg("UpdateConfig", 0, 0, FALSE,
                               [ owner |-> OwnerAddr, auction_contract_address |-> NoneAddr ],
                               NoCallback),
                    NoExternal).ok

\* C31: every ClaimRewardsAndUnlock that commits, and every DissolvePosition
\* step, is taken after the freeze resumption has run, whenever the auction
\* contract enabled the claims; so no position is removed while
\* final_ust_locked = 0.
C31_NoClaimBeforeFreeze ==
    last.op = "ClaimRewardsAndUnlock" =>
        /\ hist.freezes >= 1
        /\ "DissolvePosition" \in Kinds(last.msgs) => state.final_ust_locked # 0

\* C32: the dissolve of a position p that a claim schedules computes
\* shares_owed = floor(final_maust_locked * p.ust_locked / final_ust_locked),
\* takes exactly shares_owed from state.total_maust_locked and from the user's
\* total_maust_share, neither subtraction underflowing, transfers shares_owed
\* maUST to the user, removes the position record and its id from the user's
\* list, and leaves the records of every other user as they were.
C32_DissolveTakesSharesOwed ==
    \A u \in Users, d \in Durations, f \in BOOLEAN :
        \A c \in { handle_claim_rewards_and_unlock_position(
                       Ledger, World(NoExternal), now, u, d, f) } :
            (c.ok /\ "DissolvePosition" \in Kinds(c.msgs) /\ state.final_ust_locked > 0) =>
                \A shares_owed \in { (state.final_maust_locked
                                        * lockup_info[LockupId(u, d)].ust_locked)
                                       \div state.final_ust_locked } :
                    \A r \in { try_dissolve_position(Ledger, u, d, f) } :
                        /\ shares_owed <= state.total_maust_locked
                        /\ shares_owed <= user_info[u].total_maust_share
                        /\ r.ok
                        /\ r.L.state.total_maust_locked
                             = state.total_maust_locked - shares_owed
                        /\ r.L.user_info[u].total_maust_share
                             = user_info[u].total_maust_share - shares_owed
                        /\ r.msgs[Len(r.msgs)] = Msg("transfer_maust", u, shares_owed, 0, FALSE)
                        /\ r.L.lockup_info[LockupId(u, d)] = DefaultLockupInfo
                        /\ \A i \in 1 .. Len(r.L.user_info[u].lockup_positions) :
                               r.L.user_info[u].lockup_positions[i] # LockupId(u, d)
                        /\ \A v \in Users \ {u} :
                               /\ r.L.user_info[v] = user_info[v]
                               /\ \A e \in Durations :
                                      r.L.lockup_info[LockupId(v, e)]
                                        = lockup_info[LockupId(v, e)]

\* where the first instruction of a kind stands in a trace, 0 if there is none
Position(trace, kind) ==
    IF kind \in Kinds(trace)
    THEN CHOOSE i \in 1 .. Len(trace) :
             /\ trace[i].kind = kind
             /\ \A j \in 1 .. i - 1 : trace[j].kind # kind
    ELSE 0

\* what the claim handler emits, for every xMARS balance and pending reward it
\* can query: the reward claim only if the pending reward is nonzero, then
\* UpdateStateOnClaim with the balance queried, then DissolvePosition only for
\* a nonzero duration
C33_Emission ==
    \A u \in Users, d \in {0} \cup Durations, f \in BOOLEAN,
       balance \in 0 .. 1, pending \in 0 .. MaxAccrued :
        \A r \in { handle_claim_rewards_and_unlock_position(
                       Ledger,
                       [ maust_balance |-> 0, xmars_balance |-> balance,
                         pending_xmars |-> pending ],
                       now, u, d, f) } :
            r.ok =>
                \A k \in { Position(r.msgs, "UpdateStateOnClaim") } :
                    /\ k = (IF pending # 0 THEN 2 ELSE 1)
                    /\ pending # 0 => r.msgs[1].kind = "claim_xmars"
                    /\ r.msgs[k].user = u
                    /\ r.msgs[k].amount = balance
                    /\ Len(r.msgs) = (IF d > 0 THEN k + 1 ELSE k)
                    /\ d > 0 => r.msgs[k + 1] = Msg("DissolvePosition", u, 0, d, f)

\* a committed claim ran its instructions in that order; when it dissolved a
\* position, the xMARS was paid before the dissolve and on the share stored
\* before it, and the user's reward_index is the global index
C33_ClaimStep ==
    (now' = now /\ last'.op = "ClaimRewardsAndUnlock") =>
        \A u \in { last'.sender } :
            /\ Position(last'.msgs, "UpdateStateOnClaim") > 0
            /\ "claim_xmars" \in Kinds(last'.msgs) <=> hist'.accrued > hist.accrued
            /\ "claim_xmars" \in Kinds(last'.msgs) => last'.msgs[1].kind = "claim_xmars"
            /\ "DissolvePosition" \in Kinds(last'.msgs) <=> last'.duration > 0
            /\ "DissolvePosition" \in Kinds(last'.msgs) =>
                   /\ Position(last'.msgs, "UpdateStateOnClaim")
                        < Position(last'.msgs, "DissolvePosition")
                   /\ Position(last'.msgs, "transfer_xmars")
                        < Position(last'.msgs, "DissolvePosition")
                   /\ user_info'[u].reward_index = state'.xmars_rewards_index
                   /\ transferred(last'.msgs, "transfer_xmars", u, 1)
                        = mul_dec(user_info[u].total_maust_share,
                                  state'.xmars_rewards_index)
                            - mul_dec(user_info[u].total_maust_share,
                                      user_info[u].reward_index)

\* C33: ClaimRewardsAndUnlock emits, in this order, the reward claim at the
\* venue (only if the pending reward is nonzero), UpdateStateOnClaim carrying
\* the xMARS balance from before the call, and (only for a nonzero duration)
\* DissolvePosition; so the pending reward is settled with the share from
\* before the dissolve, and the user's reward_index equals the global index
\* when the share is decremented.
C33_ClaimEmitsInOrder ==
    /\ []C33_Emission
    /\ [][C33_ClaimStep]_vars

\* C33's case: a committed claim that claimed xMARS at the venue, paid the user
\* from it and then dissolved a position.
C33_Witness ==
    /\ last.op = "ClaimRewardsAndUnlock"
    /\ last.duration > 0
    /\ last.msgs[1].kind = "claim_xmars"
    /\ \E i \in 1 .. Len(last.msgs) :
           /\ last.msgs[i].kind = "transfer_xmars"
           /\ last.msgs[i].amount > 0
    /\ last.msgs[Len(last.msgs)].kind = "transfer_maust"

\* the shares and the reward indexes (Decimals: 0, 0.5, 1, 1.5) the reward
\* computation is compared on
RewardShares == 0 .. (MaxLocked + 1)
RewardIndexes == { 0, DECIMAL_FRACTIONAL \div 2, DECIMAL_FRACTIONAL,
                   DECIMAL_FRACTIONAL + DECIMAL_FRACTIONAL \div 2 }

\* C34: in UpdateStateOnClaim the xMARS paid to the user is
\* total_maust_share * (xmars_rewards_index - reward_index) rounded down, for
\* every share and every pair of indexes; afterwards the user's reward_index
\* is xmars_rewards_index and total_xmars_claimed has grown by the amount paid.
C34_RewardPaidIsShareTimesIndexGrowth ==
    \A share \in RewardShares, index \in RewardIndexes, reward_index \in RewardIndexes :
        reward_index <= index =>
            \A L \in { [Ledger EXCEPT
                           !.state.final_ust_locked = MaxLocked,
                           !.state.xmars_rewards_index = index,
                           !.user_info["u1"].total_maust_share = share,
                           !.user_info["u1"].reward_index = reward_index] } :
                \A r \in { update_state_on_claim(L, World(NoExternal), "u1", 0) } :
                    r.ok =>
                        /\ transferred(r.msgs, "transfer_xmars", "u1", 1)
                             = mul_dec(share, index - reward_index)
                        /\ r.L.user_info["u1"].reward_index = index
                        /\ r.L.user_info["u1"].total_xmars_claimed
                             = user_info["u1"].total_xmars_claimed
                                 + transferred(r.msgs, "transfer_xmars", "u1", 1)

\* what the index becomes when accrued xMARS is spread over the live shares
index_after(st, accrued) ==
    IF st.total_maust_locked > 0 /\ accrued > 0
    THEN st.xmars_rewards_index + from_ratio(accrued, st.total_maust_locked)
    ELSE st.xmars_rewards_index

\* UpdateStateOnClaim, for every balance before and after: what accrued is the
\* current balance less the one before the call, and the index moves by it
C35_IndexOnClaim ==
    \A u \in Users, prev \in 0 .. 1, cur \in 0 .. (MaxAccrued + 1) :
        \A r \in { update_state_on_claim(
                       Ledger, [World(NoExternal) EXCEPT !.xmars_balance = cur],
                       u, prev) } :
            /\ r.ok => cur >= prev
            /\ r.ok => r.L.state.xmars_rewards_index = index_after(state, cur - prev)

\* a committed transaction moves the index by what accrued in it over the
\* shares locked before it
C35_IndexStep ==
    now' = now =>
        state'.xmars_rewards_index
          = index_after(state, IF "UpdateStateOnClaim" \in Kinds(last'.msgs)
                               THEN hist'.accrued - hist.accrued ELSE 0)

\* C35: in UpdateStateOnClaim accrued is the current xMARS balance less the
\* balance before the call; with total_maust_locked > 0 the index rises by
\* accrued / total_maust_locked, with total_maust_locked = 0 or accrued = 0 it
\* stays; the divisor is the live share count, not final_maust_locked.
C35_IndexRisesByAccruedOverLiveShares ==
    /\ []C35_IndexOnClaim
    /\ [][C35_IndexStep]_vars

\* C35's case: xMARS accrued in a claim after a dissolve had lowered
\* total_maust_locked below final_maust_locked, and the index rose by the
\* accrued amount over the live shares.
C35_Witness ==
    /\ last.op = "ClaimRewardsAndUnlock"
    /\ last.duration = 0
    /\ "claim_xmars" \in Kinds(last.msgs)
    /\ state.total_maust_locked > 0
    /\ state.total_maust_locked < state.final_maust_locked
    /\ state.xmars_rewards_index = from_ratio(hist.accrued, state.total_maust_locked)
    /\ state.xmars_rewards_index # from_ratio(hist.accrued, state.final_maust_locked)

\* the Decimal 100%
FullPercent == from_ratio(100, 100)

\* under every configuration instantiate accepts, a time at which withdrawals
\* are open lies before init_timestamp + deposit_window, where the allowed
\* percent is 100%
C36_OpenWithdrawalsAreUncapped ==
    \A init \in 0 .. InstantiateMsg.init_timestamp,
       dw \in 1 .. MaxWindow, ww \in 1 .. MaxWindow :
        \A msg \in { [InstantiateMsg EXCEPT !.init_timestamp = init,
                                            !.deposit_window = dw,
                                            !.withdrawal_window = ww] } :
            instantiate_ok(msg, 0) =>
                \A time \in 0 .. (init + 2 * MaxWindow) :
                    is_withdraw_open(time, instantiate_config(msg)) =>
                        /\ time < init + dw
                        /\ allowed_withdrawal_percent(time, instantiate_config(msg))
                             = FullPercent

\* in every reachable state no position carries the withdrawal_flag, and a
\* withdrawal that passes the gate now is capped by the whole principal
C36_NoCapInRuns ==
    /\ \A id \in LockupIds : ~lockup_info[id].withdrawal_flag
    /\ is_withdraw_open(now, config) =>
           /\ now < config.init_timestamp + config.deposit_window
           /\ \A id \in LockupIds :
                  max_withdrawal_allowed(now, lockup_info[id]) = lockup_info[id].ust_locked

\* a committed withdrawal was taken before the deposit window closed and took
\* no more than the principal of its position
C36_WithdrawStep ==
    (now' = now /\ last'.op = "WithdrawUst") =>
        /\ now < config.init_timestamp + config.deposit_window
        /\ last'.amount <= lockup_info[LockupId(last'.sender, last'.duration)].ust_locked
        /\ ~lockup_info'[LockupId(last'.sender, last'.duration)].withdrawal_flag

PoolMaxDelegated == 2
PoolMaxAccrued == 2

PoolTick ==
    /\ now < DelegationOpensAt
    /\ now' = now + 1
    /\ UNCHANGED <<config, state, user_info, lockup_info, last, hist>>

PoolDepositUst ==
    \E sender \in Users, duration \in Durations :
        /\ state.total_ust_locked + 1 <= MaxLocked
        /\ Commit(MsgInfo(sender, << Coin(UUSD_DENOM, 1) >>), DepositMsg(duration, 1),
                  NoExternal)

PoolEnableClaims ==
    /\ Commit(MsgInfo(AuctionAddr, <<>>),
              ExecuteMsg("EnableClaims", 0, 0, FALSE, NoConfig, NoCallback), NoExternal)

PoolDepositUstInRedBank ==
    \E minted \in {0, state.total_ust_locked, state.total_ust_locked + 1} :
        /\ Commit(MsgInfo(OwnerAddr, <<>>), FreezeMsg, External(minted, 0, TRUE))

PoolDepositMarsToAuction ==
    \E sender \in Users :
        /\ state.total_mars_delegated + 1 <= PoolMaxDelegated
        /\ Commit(MsgInfo(sender, <<>>),
                  ExecuteMsg("DepositMarsToAuction", 0, 1, FALSE, NoConfig, NoCallback),
                  NoExternal)

PoolClaimRewardsAndUnlock ==
    \E sender \in Users, duration \in {0} \cup Durations, forceful \in BOOLEAN,
       accrued \in 0 .. PoolMaxAccrued :
        /\ hist.accrued + accrued <= PoolMaxAccrued
        /\ duration = 0 => ~forceful
        /\ Commit(MsgInfo(sender, <<>>), ClaimMsg(duration, forceful),
                  External(0, accrued, TRUE))

PoolNext ==
    \/ PoolTick
    \/ PoolDepositUst
    \/ PoolEnableClaims
    \/ PoolDepositUstInRedBank
    \/ PoolDepositMarsToAuction
    \/ PoolClaimRewardsAndUnlock

PoolSpec == Init /\ [][PoolNext]_vars

\* the share of the pool that u holds: the stored total_maust_share, or, for
\* a user to whom none has been stored yet, the pro-rata share the handlers
\* would assign
pool_share(u) ==
    IF user_info[u].total_maust_share # 0
    THEN user_info[u].total_maust_share
    ELSE IF hist.share_assignments[u] = 0 THEN share_formula(u) ELSE 0

C37_SharesCovered ==
    hist.freezes >= 1 =>
        SumOver([ u \in Users |-> pool_share(u) ], Users) <= state.total_maust_locked

\* C37: in every state after the freeze, the shares of all users together
\* (the cached total_maust_share, or the pro-rata share a user who has not yet
\* entered a claim path would be assigned) are at most
\* state.total_maust_locked, whatever claims and dissolves the users made.
C37_UserSharesWithinPool == []C37_SharesCovered

\* C37's case: one user has dissolved a position, the other holds a share that
\* is not stored yet, and together they hold all that is left in the pool.
C37_Witness ==
    /\ hist.freezes >= 1
    /\ hist.maust_out["u1"] > 0
    /\ user_info["u2"].total_maust_share = 0
    /\ share_formula("u2") > 0
    /\ pool_share("u1") + pool_share("u2") = state.total_maust_locked
    /\ state.total_maust_locked > 0

\* the xMARS instructed to users so far is covered by the xMARS accrued so far
C38_PaidWithinAccrued ==
    SumOver(hist.xmars_paid, Users) <= hist.accrued

\* a user who dissolved and has no position left is paid no xMARS in a
\* transaction in which xMARS accrues
C38_NoRewardAfterExit ==
    \A u \in Users :
        ( /\ hist.maust_out[u] > 0
          /\ user_info[u].lockup_positions = <<>>
          /\ hist'.accrued > hist.accrued ) =>
            hist'.xmars_paid[u] = hist.xmars_paid[u]

\* C38: the xMARS the contract has instructed to be transferred to users never
\* exceeds the xMARS accrued (the balance deltas seen by UpdateStateOnClaim),
\* and a user who has dissolved all positions is paid no xMARS for rewards
\* accrued afterwards.
C38_RewardSolvency ==
    /\ []C38_PaidWithinAccrued
    /\ [][C38_NoRewardAfterExit]_vars

\* the ledger after the step
LedgerAfter ==
    [ config |-> config', state |-> state', user_info |-> user_info',
      lockup_info |-> lockup_info' ]

\* after the freeze the shares still locked and the shares the dissolves sent
\* out make up the shares minted; a position without principal cannot be
\* unlocked, and cannot be funded again
C39_SharesConserved ==
    hist.freezes >= 1 =>
        /\ state.total_maust_locked + SumOver(hist.maust_out, Users)
             = state.final_maust_locked
        /\ SumOver(hist.maust_out, Users) <= state.final_maust_locked
        /\ \A u \in Users, d \in Durations :
               lockup_info[LockupId(u, d)].ust_locked = 0 =>
                   /\ \A f \in BOOLEAN, accrued \in 0 .. 1 :
                          ~transaction(Ledger, now, MsgInfo(u, <<>>), ClaimMsg(d, f),
                                       External(0, accrued, TRUE)).ok
                   /\ ~transaction(Ledger, now, MsgInfo(u, << Coin(UUSD_DENOM, 1) >>),
                                   DepositMsg(d, 1), NoExternal).ok

\* a committed dissolve empties its position, sends out one transfer of maUST,
\* and a second request to unlock the same position fails
C39_DissolveStep ==
    (now' = now /\ "DissolvePosition" \in Kinds(last'.msgs)) =>
        \A u \in { last'.sender }, d \in { last'.duration } :
            /\ lockup_info[LockupId(u, d)].ust_locked > 0
            /\ lockup_info'[LockupId(u, d)].ust_locked = 0
            /\ hist'.maust_out[u] - hist.maust_out[u]
                 = state.total_maust_locked - state'.total_maust_locked
            /\ \A f \in BOOLEAN :
                   ~transaction(LedgerAfter, now, MsgInfo(u, <<>>), ClaimMsg(d, f),
                                NoExternal).ok

\* C39: in every state after the freeze, state.total_maust_locked plus the
\* maUST the dissolves transferred out equals final_maust_locked; a position
\* is dissolved at most once (a second request to unlock the same user and
\* duration fails); the total transferred out never exceeds
\* final_maust_locked.
C39_ShareConservation ==
    /\ []C39_SharesConserved
    /\ [][C39_DissolveStep]_vars

\* C39's case: both users have dissolved a position and shares are left in
\* the pool.
C39_Witness ==
    /\ "DissolvePosition" \in Kinds(last.msgs)
    /\ hist.maust_out["u1"] > 0
    /\ hist.maust_out["u2"] > 0
    /\ state.total_maust_locked > 0
    /\ state.total_maust_locked + hist.maust_out["u1"] + hist.maust_out["u2"]
         = state.final_maust_locked

\* the delegations are counted once, and a user who was paid their incentives
\* was paid what the delegations left of them
C40_IncentivesAccounted ==
    /\ state.total_mars_delegated
         = SumOver([ u \in Users |-> user_info[u].delegated_mars_incentives ], Users)
    /\ \A u \in Users :
           /\ user_info[u].lockdrop_claimed <=> hist.mars_payouts[u] = 1
           /\ hist.mars_payouts[u] <= 1
           /\ user_info[u].lockdrop_claimed =>
                  hist.mars_paid[u] + user_info[u].delegated_mars_incentives
                    = user_info[u].total_mars_incentives

\* a delegation is made by a user who was not paid yet, and raises the user's
\* and the global count by its amount; no other step changes a count
C40_DelegationStep ==
    /\ (now' = now /\ last'.op = "DepositMarsToAuction") =>
           \A u \in { last'.sender } :
               /\ ~user_info[u].lockdrop_claimed
               /\ hist.mars_payouts[u] = 0
               /\ user_info'[u].delegated_mars_incentives
                    = user_info[u].delegated_mars_incentives + last'.amount
               /\ state'.total_mars_delegated = state.total_mars_delegated + last'.amount
    /\ \A u \in Users :
           user_info'[u].delegated_mars_incentives # user_info[u].delegated_mars_incentives =>
               /\ last'.op = "DepositMarsToAuction"
               /\ last'.sender = u

\* C40: state.total_mars_delegated is the sum over the users of
\* delegated_mars_incentives; all successful delegations of a user precede
\* that user's one-time incentive payout, so for a user who has claimed, the
\* incentive tokens paid plus delegated_mars_incentives equal
\* total_mars_incentives.
C40_IncentiveAccounting ==
    /\ []C40_IncentivesAccounted
    /\ [][C40_DelegationStep]_vars

\* C40's case: both users delegated, then both were paid the rest of their
\* incentives.
C40_Witness ==
    /\ \A u \in Users :
           /\ user_info[u].lockdrop_claimed
           /\ user_info[u].delegated_mars_incentives > 0
           /\ hist.mars_paid[u] > 0
    /\ state.total_mars_delegated >= 2

====
